---- MODULE Spec2Model ----
(***************************************************************************)
(***************************************************************************)
(* Verification model of the lvreuse performance/cost engine.              *)
(*                                                                         *)
(* Numbers.  The program computes in Python / numpy floating point.  The   *)
(* model computes the same expressions exactly:                            *)
(*   [k |-> "fin", n, d, t]  the real number n/d + SUM of c * atom over    *)
(*                        the terms [atom, c] in t, where an atom names a  *)
(*                        positive quantity the model keeps symbolic (the  *)
(*                        constant g_0, its inverse, prices, the power    *)
(*                        laws with non-integer exponents); t = {} for a   *)
(*                        rational; d > 0 and n/d is in lowest terms       *)
(*   [k |-> "nan"]        not-a-number (numpy.nan)                         *)
(*   [k |-> "pinf"|"ninf"] +/- infinity (numpy division by zero)           *)
(*   [k |-> "raise"]      a Python exception propagating out of the        *)
(*                        expression (ZeroDivisionError, AssertionError..) *)
(*   [k |-> "none"]       Python None                                      *)
(***************************************************************************)
EXTENDS Integers, Sequences, FiniteSets, TLC

VARIABLES
    h_in,      \* function harness: the arguments of the call under study
    h_out,     \* function harness: results of the calls made so far
    s_in,      \* solver harness: arguments and root-finder outcome
    s_out,     \* solver harness: value returned by the solver function
    veh,       \* the LaunchVehicle bound to the Strategy: M0, element masses
    props,     \* VehicleArchitecture.vehicle_props_dict of the Strategy
    strat,     \* the Strategy object under evaluation (its class)
    call,      \* per caller: program position and locals of its evaluate call
    ncalls     \* number of evaluate calls started so far

vars == <<h_in, h_out, s_in, s_out, veh, props, strat, call, ncalls>>

-----------------------------------------------------------------------------
(* Arithmetic                                                              *)

Abs(x) == IF x < 0 THEN -x ELSE x

RECURSIVE GCD(_, _)
GCD(a, b) == IF b = 0 THEN a ELSE GCD(b, a % b)

Fin(n, d) ==
    LET s == IF d < 0 THEN -1 ELSE 1
        g == GCD(Abs(n), Abs(d))
    IN  [k |-> "fin", n |-> (s * n) \div g, d |-> (s * d) \div g, t |-> {}]

I(n)    == [k |-> "fin", n |-> n, d |-> 1, t |-> {}]
NaN     == [k |-> "nan", n |-> 0, d |-> 1, t |-> {}]
PInf    == [k |-> "pinf", n |-> 0, d |-> 1, t |-> {}]
NInf    == [k |-> "ninf", n |-> 0, d |-> 1, t |-> {}]
Raise   == [k |-> "raise", n |-> 0, d |-> 1, t |-> {}]
NoneVal == [k |-> "none", n |-> 0, d |-> 1, t |-> {}]

IsFin(x)   == x.k = "fin"
IsNaN(x)   == x.k = "nan"
IsRaise(x) == x.k = "raise"
IsInf(x)   == x.k \in {"pinf", "ninf"}
IsNone(x)  == x.k = "none"
IsRat(x)   == x.k = "fin" /\ x.t = {}

\* the rational part of a finite value
Q(x) == [k |-> "fin", n |-> x.n, d |-> x.d, t |-> {}]

QAdd(x, y) ==
    LET g == GCD(x.d, y.d)
        l == (x.d \div g) * y.d
    IN  Fin(x.n * (l \div x.d) + y.n * (l \div y.d), l)

QMul(x, y) ==
    LET g1 == GCD(Abs(x.n), y.d)
        g2 == GCD(Abs(y.n), x.d)
    IN  Fin((x.n \div g1) * (y.n \div g2), (x.d \div g2) * (y.d \div g1))

\* symbolic quantities: a name and the values it is taken at
Atom(name, x, y, z) == [name |-> name, x |-> x, y |-> y, z |-> z]
AtomG0     == Atom("g_0", I(0), I(0), I(0))
AtomInvG0  == Atom("1/g_0", I(0), I(0), I(0))

Atoms(x) == {r.atom : r \in x.t}
Coef(x, atom) ==
    IF \E r \in x.t : r.atom = atom
    THEN (CHOOSE r \in x.t : r.atom = atom).c
    ELSE I(0)

MkLin(q, terms) ==
    [k |-> "fin", n |-> q.n, d |-> q.d, t |-> {r \in terms : r.c.n # 0}]

Sym(atom) == MkLin(I(0), {[atom |-> atom, c |-> I(1)]})

LinAdd(x, y) ==
    MkLin(QAdd(Q(x), Q(y)),
          {[atom |-> a, c |-> QAdd(Coef(x, a), Coef(y, a))] : a \in Atoms(x) \cup Atoms(y)})

\* a finite value times a rational
LinScale(x, r) ==
    MkLin(QMul(Q(x), r), {[atom |-> e.atom, c |-> QMul(e.c, r)] : e \in x.t})

\* lvreuse.constants.g_0 = 9.80665
g_0 == Fin(196133, 20000)

\* 1/g_0 = 0.10197... lies between these two numbers of thousandths
InvG0Lo == 101
InvG0Hi == 102

\* sign of a finite value.  Every atom is a positive quantity; when the
\* coefficients disagree in sign the value is q + c/g_0, the only mixed form
\* the program produces, and its sign is the sign it has at both bounds of
\* 1/g_0.
SgnFin(x) ==
    IF x.t = {} THEN (IF x.n > 0 THEN 1 ELSE IF x.n < 0 THEN -1 ELSE 0)
    ELSE IF x.n >= 0 /\ \A r \in x.t : r.c.n > 0 THEN 1
    ELSE IF x.n <= 0 /\ \A r \in x.t : r.c.n < 0 THEN -1
    ELSE LET c == (CHOOSE r \in x.t : r.atom = AtomInvG0).c
             lo == x.n * c.d * 1000 + InvG0Lo * c.n * x.d
             hi == x.n * c.d * 1000 + InvG0Hi * c.n * x.d
         IN  CHOOSE s \in {-1, 1} :
                Cardinality(x.t) = 1 /\ s * lo > 0 /\ s * hi > 0

\* sign of a value that is neither nan nor raise
Sgn(x) == CASE x.k = "pinf" -> 1
            [] x.k = "ninf" -> -1
            [] OTHER -> SgnFin(x)

\* the infinity of sign s; nan for the sign of 0 * inf and 0 / 0
InfOf(s) == IF s > 0 THEN PInf ELSE IF s < 0 THEN NInf ELSE NaN

FNeg(x) == CASE x.k = "fin" -> LinScale(x, I(-1))
             [] x.k = "pinf" -> NInf
             [] x.k = "ninf" -> PInf
             [] OTHER -> x

FAdd(x, y) ==
    IF x.k = "fin" /\ y.k = "fin" THEN LinAdd(x, y)
    ELSE IF IsRaise(x) \/ IsRaise(y) \/ IsNone(x) \/ IsNone(y) THEN Raise
    ELSE IF IsNaN(x) \/ IsNaN(y) THEN NaN
    ELSE IF IsInf(x) /\ IsInf(y) THEN (IF x.k = y.k THEN x ELSE NaN)
    ELSE IF IsInf(x) THEN x
    ELSE IF IsInf(y) THEN y
    ELSE LinAdd(x, y)

FSub(x, y) == FAdd(x, FNeg(y))

\* of two finite factors at least one is rational in every product the
\* program forms on the modelled inputs: lin is the other one
FinMul(x, y) ==
    CHOOSE r \in {LinScale(lin, q) :
                    lin \in {IF IsRat(y) THEN x ELSE y},
                    q \in {v \in {IF IsRat(y) THEN y ELSE x} : IsRat(v)}} : TRUE

FMul(x, y) ==
    IF x.k = "fin" /\ y.k = "fin" THEN FinMul(x, y)
    ELSE IF IsRaise(x) \/ IsRaise(y) \/ IsNone(x) \/ IsNone(y) THEN Raise
    ELSE IF IsNaN(x) \/ IsNaN(y) THEN NaN
    ELSE IF IsInf(x) \/ IsInf(y) THEN InfOf(Sgn(x) * Sgn(y))
    ELSE FinMul(x, y)

\* numpy true division: a zero divisor gives +/-inf or nan, never an
\* exception; a finite divisor is a rational on the modelled inputs
NpDiv(x, y) ==
    IF x.k = "fin" /\ y.k = "fin" /\ y.t = {} /\ y.n # 0
    THEN LinScale(x, Fin(y.d, y.n))
    ELSE IF IsRaise(x) \/ IsRaise(y) \/ IsNone(x) \/ IsNone(y) THEN Raise
    ELSE IF IsNaN(x) \/ IsNaN(y) THEN NaN
    ELSE IF IsInf(y) THEN (IF IsInf(x) THEN NaN ELSE I(0))
    ELSE IF IsRat(y) /\ y.n = 0 THEN InfOf(Sgn(x))
    ELSE IF IsInf(x) THEN InfOf(Sgn(x) * Sgn(y))
    ELSE CHOOSE r \in {LinScale(x, Fin(q.d, q.n)) : q \in {v \in {y} : IsRat(v)}} : TRUE

\* Python true division of built-in numbers: a zero divisor raises
PyDiv(x, y) ==
    IF ~IsRaise(x) /\ IsRat(y) /\ y.n = 0 THEN Raise ELSE NpDiv(x, y)

\* x / g_0 for a value x = q + c * g_0, which is c + q * (1/g_0)
DivG0(x) ==
    IF ~IsFin(x) THEN x
    ELSE CHOOSE r \in {MkLin(Coef(x, AtomG0), {[atom |-> AtomInvG0, c |-> Q(x)]})} :
            Atoms(x) \subseteq {AtomG0}

\* x < y; every comparison with nan is False
FLt(x, y) ==
    IF IsNaN(x) \/ IsNaN(y) \/ IsRaise(x) \/ IsRaise(y) THEN FALSE
    ELSE IF IsInf(x) \/ IsInf(y)
         THEN (x.k # y.k) /\ (x.k = "ninf" \/ y.k = "pinf")
    ELSE Sgn(FSub(y, x)) > 0

FGt(x, y) == FLt(y, x)
FLe(x, y) == FLt(x, y) \/ (~IsNaN(x) /\ ~IsNaN(y) /\ ~IsRaise(x) /\ ~IsRaise(y) /\ x = y)

\* x ** e for a natural exponent e
RECURSIVE FPow(_, _)
FPow(x, e) == IF e = 0 THEN I(1) ELSE FMul(x, FPow(x, e - 1))

\* a variant that rounds down
Ceil_floor(x) == x.n \div x.d

\* math.ceil of a finite value
Ceil(x) == -((-x.n) \div x.d)

\* Python range(start, stop): the integers start, start+1, ..., stop-1
Range(start, stop) == {i \in start..(stop - 1) : TRUE}

-----------------------------------------------------------------------------
(* Learning curve: cost_reduction_factor                                   *)

\* The learning factors p the model draws are powers of one half, so that
\* the exponent log(p)/log(2) is the integer -Log2Inv(p) and every
\* prod_num ** exponent is rational.
PSet == {I(1), Fin(1, 2)}

Log2Inv(p) == CHOOSE e \in 0..2 : p = Fin(1, 2 ^ e)

\* a variant without learning: every unit costs what the first did
UnitCostFactor_flat(p, prod_num) == I(1)

\* prod_num ** (math.log(p)/math.log(2.)); 0 to a negative power raises,
\* and any number to the power 0.0 is 1.0
UnitCostFactor(p, prod_num) ==
    CHOOSE r \in {IF e = 0 THEN I(1)
                  ELSE IF prod_num = 0 THEN Raise
                  ELSE Fin(1, prod_num ^ e) :
                     e \in {Log2Inv(p)}} : TRUE

\* the loop "for prod_num in prod_nums_list: f4_sum += prod_num**exponent",
\* entered with the value f4_sum and run over prod_nums in ascending
\* order: over the earlier half of the serials, then over the later half
RECURSIVE f4_sum_loop(_, _, _)
f4_sum_loop(p, f4_sum, prod_nums) ==
    IF prod_nums = {} THEN f4_sum
    ELSE IF Cardinality(prod_nums) = 1
    THEN FAdd(f4_sum, UnitCostFactor(p, CHOOSE i \in prod_nums : TRUE))
    ELSE LET later == {i \in prod_nums :
                          2 * Cardinality({j \in prod_nums : j < i})
                              >= Cardinality(prod_nums)}
         IN  CHOOSE r \in {f4_sum_loop(p, sofar, later) :
                              sofar \in {f4_sum_loop(p, f4_sum, prod_nums \ later)}} : TRUE

\* f4_sum as the loop leaves it, from f4_sum = 0
f4_sum(p, prod_nums) == f4_sum_loop(p, I(0), prod_nums)

\* a variant that divides by the last serial instead of the number of units
cost_reduction_factor_bylast(p, prod_nums_list) ==
    PyDiv(f4_sum(p, prod_nums_list),
          I(CHOOSE i \in prod_nums_list : \A j \in prod_nums_list : j <= i))

\* prod_nums_list is a list of distinct production numbers, kept as a set;
\* len() of an empty list makes the final division raise ZeroDivisionError
cost_reduction_factor(p, prod_nums_list) ==
    CHOOSE f4_avg \in
        {PyDiv(sum, I(Cardinality(prod_nums_list))) :
            sum \in {f4_sum(p, prod_nums_list)}} : TRUE

-----------------------------------------------------------------------------
(* Elements: LaunchVehicleElement and its subclasses                       *)

ComplexClasses ==
    {"ExpendableBallisticStageStorable", "ExpendableBallisticStageLH2",
     "ReusableBallisticStageStorable", "ReusableBallisticStageLH2",
     "WingedOrbitalVehicle", "AdvancedAircraft",
     "CrewedBallisticReentryCapsule", "ExpendableTank"}

NoF2Classes == {"VTOStageFlybackVehicle", "CrewedSpaceSystem"}

\* the subclasses of TurboFedEngine
TurboFedClasses == {"CryoLH2TurboFed", "StorableTurboFed", "ModernTurboFed"}

\* the subclasses that inherit element_development_cost of LaunchVehicleElement
BaseClasses ==
    {"SolidRocketMotor", "SolidPropellantBooster", "SolidPropellantVehicleStage",
     "StorablePressureFed", "ModernPressureFed", "TurboJetEngine", "RamjetEngine",
     "LiquidPropulsionModule"}

ElementClasses == BaseClasses \cup TurboFedClasses \cup ComplexClasses \cup NoF2Classes

NoF10ProdClasses == {"ModernPressureFed", "ModernTurboFed"}

\* self.m ** x for a natural exponent x
MassPow(m, x) == FPow(m, x)

\* a variant in which every class multiplies by f2
element_development_cost_withf2(element, CER_vals, cf) ==
    LET base == FMul(FMul(FMul(cf.f1, cf.f2), cf.f3), cf.f8)
        law  == FMul(CER_vals.dev_a, MassPow(element.m, CER_vals.dev_x))
    IN  IF element.cls \in ComplexClasses \cup NoF2Classes
        THEN FMul(FMul(FMul(base, cf.f10), cf.f11), law)
        ELSE FMul(base, law)

\* a variant in which every class multiplies by f10 and f11
element_development_cost_allcomplex(element, CER_vals, cf) ==
    LET base == FMul(FMul(FMul(cf.f1, cf.f2), cf.f3), cf.f8)
        law  == FMul(CER_vals.dev_a, MassPow(element.m, CER_vals.dev_x))
    IN  IF element.cls \in NoF2Classes
        THEN FMul(FMul(FMul(FMul(FMul(cf.f1, cf.f3), cf.f8), cf.f10), cf.f11), law)
        ELSE FMul(FMul(FMul(base, cf.f10), cf.f11), law)

element_development_cost(element, CER_vals, cf) ==
    LET base == FMul(FMul(FMul(cf.f1, cf.f2), cf.f3), cf.f8)
        law  == FMul(CER_vals.dev_a, MassPow(element.m, CER_vals.dev_x))
    IN  IF element.cls \in ComplexClasses
        THEN FMul(FMul(FMul(base, cf.f10), cf.f11), law)
        ELSE IF element.cls \in NoF2Classes
        THEN FMul(FMul(FMul(FMul(FMul(cf.f1, cf.f3), cf.f8), cf.f10), cf.f11), law)
        ELSE FMul(base, law)

\* a variant in which every class multiplies by f10
average_element_production_cost_allf10(element, CER_vals, cf, element_prod_nums_list) ==
    FMul(FMul(FMul(FMul(FMul(CER_vals.prod_a, MassPow(element.m, CER_vals.prod_x)),
                        cost_reduction_factor(cf.p, element_prod_nums_list)),
                   cf.f8), cf.f10), cf.f11)

average_element_production_cost(element, CER_vals, cf, element_prod_nums_list) ==
    LET law(f4_avg) ==
            FMul(FMul(CER_vals.prod_a, MassPow(element.m, CER_vals.prod_x)), f4_avg)
    IN  CHOOSE cost \in
            {IF element.cls \in NoF10ProdClasses
             THEN FMul(FMul(law(f4_avg), cf.f8), cf.f11)
             ELSE FMul(FMul(FMul(law(f4_avg), cf.f8), cf.f10), cf.f11) :
                f4_avg \in {cost_reduction_factor(cf.p, element_prod_nums_list)}} : TRUE

-----------------------------------------------------------------------------
(* LaunchVehicle: production cost                                          *)

\* a variant whose range stops one serial early
ElementProdNums_short(vehicle_prod_nums_list, n) ==
    Range(vehicle_prod_nums_list[1] * n - n + 1,
          vehicle_prod_nums_list[Len(vehicle_prod_nums_list)] * n)

\* element_prod_nums_list of average_vehicle_production_cost and of the
\* else branch of average_prod_cost_per_flight
ElementProdNums(vehicle_prod_nums_list, n) ==
    Range(vehicle_prod_nums_list[1] * n - n + 1,
          vehicle_prod_nums_list[Len(vehicle_prod_nums_list)] * n + 1)

\* a variant that forgets the last serial of the last build
ReusedElementProdNums_short(vehicle_prod_nums_list, n, num_reuses) ==
    Range(Ceil(PyDiv(I(vehicle_prod_nums_list[1]), num_reuses)) * n - n + 1,
          Ceil(PyDiv(I(vehicle_prod_nums_list[Len(vehicle_prod_nums_list)]),
                     num_reuses)) * n)

\* element_prod_nums_list of the reuse branch of average_prod_cost_per_flight
ReusedElementProdNums(vehicle_prod_nums_list, n, num_reuses) ==
    Range(Ceil(PyDiv(I(vehicle_prod_nums_list[1]), num_reuses)) * n - n + 1,
          Ceil(PyDiv(I(vehicle_prod_nums_list[Len(vehicle_prod_nums_list)]),
                     num_reuses)) * n + 1)

\* one pass of the loop body of average_vehicle_production_cost:
\* the amount added to sum_prod_cost for this element
VehicleProdTerm(element, entry, vehicle_prod_nums_list) ==
    CHOOSE term \in
        {FMul(I(entry.n), element_prod_cost) :
            element_prod_cost \in
                {average_element_production_cost(element, entry.CER_vals, entry.cf,
                     ElementProdNums(vehicle_prod_nums_list, entry.n))}} : TRUE

\* a variant that takes the reuse branch for every dictionary entry
IsReused_anyentry(element, element_reuses_dict) ==
    element.name \in DOMAIN element_reuses_dict

\* the branch test of average_prod_cost_per_flight
IsReused(element, element_reuses_dict) ==
    /\ element.name \in DOMAIN element_reuses_dict
    /\ FGt(element_reuses_dict[element.name], I(1))

\* the serials the loop body of average_prod_cost_per_flight averages over
PerFlightProdNums(element, entry, element_reuses_dict, vehicle_prod_nums_list) ==
    IF IsReused(element, element_reuses_dict)
    THEN ReusedElementProdNums(vehicle_prod_nums_list, entry.n,
                               element_reuses_dict[element.name])
    ELSE Range(vehicle_prod_nums_list[1] * entry.n - entry.n + 1,
               vehicle_prod_nums_list[Len(vehicle_prod_nums_list)] * entry.n + 1)

\* a variant that does not amortize a reused element over its flights
PerFlightProdTerm_undivided(element, entry, element_reuses_dict, vehicle_prod_nums_list) ==
    FMul(I(entry.n),
         average_element_production_cost(element, entry.CER_vals, entry.cf,
             PerFlightProdNums(element, entry, element_reuses_dict,
                               vehicle_prod_nums_list)))

\* one pass of the loop body of average_prod_cost_per_flight
PerFlightProdTerm(element, entry, element_reuses_dict, vehicle_prod_nums_list) ==
    CHOOSE term \in
        {IF IsReused(element, element_reuses_dict)
         THEN PyDiv(FMul(I(entry.n), element_prod_cost),
                    element_reuses_dict[element.name])
         ELSE FMul(I(entry.n), element_prod_cost) :
            element_prod_cost \in
                {average_element_production_cost(element, entry.CER_vals, entry.cf,
                     PerFlightProdNums(element, entry, element_reuses_dict,
                                       vehicle_prod_nums_list))}} : TRUE

\* the KeyError of element_map[element.name] for a name that is no key
KeyError == [k |-> "raise", n |-> 1, d |-> 1, t |-> {}]

\* the passes of "for element in self.element_list" that find their
\* element_map[element.name]: the elements before the first missing name
LoopPasses(element_list, element_map) ==
    Cardinality({i \in 1..Len(element_list) :
                    \A j \in 1..i : element_list[j].name \in DOMAIN element_map})

\* a variant that leaves the loop at the missing name and keeps the sum
KeyErrorAfter_silent(passed) == passed

\* how the loop ends at a missing name: with the KeyError, unless a pass
\* before it had already raised
KeyErrorAfter(passed) == IF IsRaise(passed) THEN Raise ELSE KeyError

RECURSIVE SumVehicleProd(_, _, _, _)
SumVehicleProd(element_list, i, element_map, vehicle_prod_nums_list) ==
    IF i = 0 THEN I(0)
    ELSE CHOOSE r \in
            {FAdd(sum_prod_cost, term) :
                sum_prod_cost \in {SumVehicleProd(element_list, i - 1, element_map,
                                                  vehicle_prod_nums_list)},
                term \in {VehicleProdTerm(element_list[i],
                                          element_map[element_list[i].name],
                                          vehicle_prod_nums_list)}} : TRUE

RECURSIVE SumPerFlightProd(_, _, _, _, _)
SumPerFlightProd(element_list, i, element_reuses_dict, element_map, vehicle_prod_nums_list) ==
    IF i = 0 THEN I(0)
    ELSE CHOOSE r \in
            {FAdd(sum_prod_cost, term) :
                sum_prod_cost \in {SumPerFlightProd(element_list, i - 1,
                                       element_reuses_dict, element_map,
                                       vehicle_prod_nums_list)},
                term \in {PerFlightProdTerm(element_list[i],
                                            element_map[element_list[i].name],
                                            element_reuses_dict,
                                            vehicle_prod_nums_list)}} : TRUE

\* f0_prod**self.N * sum_prod_cost * f9
VehicleProdFactor(lv, vcf, sum_prod_cost) ==
    FMul(FMul(FPow(vcf.f0_prod, lv.N), sum_prod_cost), vcf.f9)

\* the statements after the loop, reached when every pass found its entry
ProdCostAfterLoop(lv, vcf, passes, sum_prod_cost) ==
    IF passes < Len(lv.element_list) THEN KeyErrorAfter(sum_prod_cost)
    ELSE VehicleProdFactor(lv, vcf, sum_prod_cost)

average_vehicle_production_cost(lv, vcf, vehicle_prod_nums_list, element_map) ==
    CHOOSE cost \in
        {ProdCostAfterLoop(lv, vcf, LoopPasses(lv.element_list, element_map),
                           sum_prod_cost) :
            sum_prod_cost \in
                {SumVehicleProd(lv.element_list, LoopPasses(lv.element_list, element_map),
                                element_map, vehicle_prod_nums_list)}} : TRUE

average_prod_cost_per_flight(lv, element_reuses_dict, element_map, vcf, vehicle_prod_nums_list) ==
    CHOOSE cost \in
        {ProdCostAfterLoop(lv, vcf, LoopPasses(lv.element_list, element_map),
                           sum_prod_cost) :
            sum_prod_cost \in
                {SumPerFlightProd(lv.element_list,
                     LoopPasses(lv.element_list, element_map), element_reuses_dict,
                     element_map, vehicle_prod_nums_list)}} : TRUE

-----------------------------------------------------------------------------
(* Cost harness: the production-cost functions applied to drawn arguments  *)

MaxProdNum == 3       \* largest vehicle production number drawn
MaxUnits == 2         \* largest number of identical engines per vehicle drawn
MaxReuseHalves == 6   \* num_reuses is drawn as h/2 for h in 1..MaxReuseHalves

ElementNames == {"s1", "e1", "s2", "e2"}

\* a two-stage vehicle as construct_launch_vehicle('ballistic', 'kerosene',
\* 'full', ...) lists it, with reference masses filled in
HarnessVehicle ==
    [name |-> "veh", M0 |-> I(10), N |-> 2,
     element_list |->
        << [name |-> "s2", m |-> I(2), cls |-> "ExpendableBallisticStageStorable"],
           [name |-> "e2", m |-> I(1), cls |-> "StorableTurboFed"],
           [name |-> "s1", m |-> I(3), cls |-> "ReusableBallisticStageStorable"],
           [name |-> "e1", m |-> I(2), cls |-> "StorableTurboFed"] >>]

HarnessCER(prod_a) ==
    [dev_a |-> I(1), dev_x |-> 1, prod_a |-> prod_a, prod_x |-> 1]

HarnessFactors(p) ==
    [f1 |-> I(1), f2 |-> I(1), f3 |-> I(1), f8 |-> I(1),
     f10 |-> Fin(1, 2), f11 |-> Fin(1, 2), p |-> p]

\* {element_name: [CER_vals, element_cost_factors, num_elements_per_vehicle]}
HarnessElementMap(n_e1, p) ==
    [name \in ElementNames |->
        CASE name = "s1" -> [CER_vals |-> HarnessCER(Fin(3, 2)), cf |-> HarnessFactors(p), n |-> 1]
          [] name = "e1" -> [CER_vals |-> HarnessCER(I(1)), cf |-> HarnessFactors(p), n |-> n_e1]
          [] name = "s2" -> [CER_vals |-> HarnessCER(I(2)), cf |-> HarnessFactors(I(1)), n |-> 1]
          [] name = "e2" -> [CER_vals |-> HarnessCER(I(1)), cf |-> HarnessFactors(p), n |-> 2]]

HarnessVehicleFactors ==
    [f0_dev |-> I(1), f0_prod |-> Fin(3, 2), f6 |-> I(1), f7 |-> I(1),
     f8 |-> I(1), f9 |-> I(2)]

\* element_reuses_dict: a dictionary over some of 's1', 'e1'.  A choice of 0
\* leaves the element out of the dictionary; a choice h > 0 maps it to h/2.
ReuseChoices == {0} \cup (1..MaxReuseHalves)
S1ReuseChoices == {0, 2, 5}

ReusesDict(h_s1, h_e1) ==
    [name \in {x \in {"s1", "e1"} : (x = "s1" /\ h_s1 # 0) \/ (x = "e1" /\ h_e1 # 0)} |->
        IF name = "s1" THEN Fin(h_s1, 2) ELSE Fin(h_e1, 2)]

\* the consecutive list first, first+1, ..., last
ProdNumsList(first, last) == [i \in 1..(last - first + 1) |-> first + i - 1]

NoCall ==
    [called |-> FALSE, value |-> I(0),
     serials |-> [name \in ElementNames |-> {}],
     terms |-> [name \in ElementNames |-> I(0)]]

ElementNamed(lv, name) ==
    lv.element_list[CHOOSE i \in 1..Len(lv.element_list) : lv.element_list[i].name = name]

HarnessInit ==
    /\ \E first \in 1..MaxProdNum, last \in 1..MaxProdNum, n_e1 \in 1..MaxUnits,
          h_s1 \in S1ReuseChoices, h_e1 \in ReuseChoices, p \in PSet :
          /\ first <= last
          /\ h_in = [vehicle_prod_nums_list |-> ProdNumsList(first, last),
                     element_map |-> HarnessElementMap(n_e1, p),
                     element_reuses_dict |-> ReusesDict(h_s1, h_e1)]
    /\ h_out = [full |-> NoCall, per_flight |-> NoCall, first_build |-> NoCall]

\* LaunchVehicle.average_vehicle_production_cost(vcf, list, element_map),
\* with the locals of each loop pass recorded
ProductionCall(list) ==
    [called |-> TRUE,
     value |-> average_vehicle_production_cost(HarnessVehicle, HarnessVehicleFactors,
                                               list, h_in.element_map),
     serials |-> [name \in ElementNames |->
                    ElementProdNums(list, h_in.element_map[name].n)],
     terms |-> [name \in ElementNames |->
                    VehicleProdTerm(ElementNamed(HarnessVehicle, name),
                                    h_in.element_map[name], list)]]

CallAverageVehicleProductionCost ==
    /\ ~h_out.full.called
    /\ h_out' = [h_out EXCEPT !.full = ProductionCall(h_in.vehicle_prod_nums_list)]
    /\ UNCHANGED <<h_in, s_in, s_out, veh, props, strat, call, ncalls>>

\* the production cost of the first vehicle built: the list [1]
CallFirstBuildProductionCost ==
    /\ ~h_out.first_build.called
    /\ h_out' = [h_out EXCEPT !.first_build = ProductionCall(<<1>>)]
    /\ UNCHANGED <<h_in, s_in, s_out, veh, props, strat, call, ncalls>>

CallAverageProdCostPerFlight ==
    /\ ~h_out.per_flight.called
    /\ h_out' = [h_out EXCEPT !.per_flight =
          [called |-> TRUE,
           value |-> average_prod_cost_per_flight(HarnessVehicle,
                        h_in.element_reuses_dict, h_in.element_map,
                        HarnessVehicleFactors, h_in.vehicle_prod_nums_list),
           serials |-> [name \in ElementNames |->
                          PerFlightProdNums(ElementNamed(HarnessVehicle, name),
                              h_in.element_map[name], h_in.element_reuses_dict,
                              h_in.vehicle_prod_nums_list)],
           terms |-> [name \in ElementNames |->
                          PerFlightProdTerm(ElementNamed(HarnessVehicle, name),
                              h_in.element_map[name], h_in.element_reuses_dict,
                              h_in.vehicle_prod_nums_list)]]]
    /\ UNCHANGED <<h_in, s_in, s_out, veh, props, strat, call, ncalls>>

Idle == [idle |-> TRUE]

CostInit ==
    /\ HarnessInit
    /\ s_in = Idle /\ s_out = Idle
    /\ veh = Idle /\ props = Idle /\ strat = Idle /\ call = Idle /\ ncalls = 0

CostNext ==
    \/ CallAverageVehicleProductionCost
    \/ CallFirstBuildProductionCost
    \/ CallAverageProdCostPerFlight

CostSpec == CostInit /\ [][CostNext]_vars

-----------------------------------------------------------------------------
(* Claims about the production-cost indexing (checked under CostSpec)      *)

First(list) == list[1]
Last(list) == list[Len(list)]
Flights(list) == {list[i] : i \in 1..Len(list)}

\* the element serials consumed by build b of an element with n units per vehicle
BuildSerials(b, n) == {i \in 1..(b * n) : (b - 1) * n < i}

\* the build a flight k is charged to when a unit flies N times:
\* the least b with b * N >= k
BuildOfFlight(k, N) ==
    CHOOSE b \in 1..k : /\ FLe(I(k), FMul(I(b), N))
                        /\ \A c \in 1..(b - 1) : FLt(FMul(I(c), N), I(k))

ReusedNames == {name \in DOMAIN h_in.element_reuses_dict :
                    FGt(h_in.element_reuses_dict[name], I(1))}

\* C1: in average_prod_cost_per_flight, an element with n units that has
\* num_reuses = N > 1 is averaged over exactly the serials
\* (ceil(first/N) - 1)*n + 1 .. ceil(last/N)*n, which are the serials of the
\* builds ceil(k/N) that the listed flights k are charged to.
C1_ReusedSerials ==
    h_out.per_flight.called =>
        \A name \in ReusedNames :
            LET n == h_in.element_map[name].n
                N == h_in.element_reuses_dict[name]
                list == h_in.vehicle_prod_nums_list
                lo == (BuildOfFlight(First(list), N) - 1) * n + 1
                hi == BuildOfFlight(Last(list), N) * n
            IN  /\ h_out.per_flight.serials[name] = {i \in lo..hi : TRUE}
                /\ h_out.per_flight.serials[name] =
                       UNION {BuildSerials(BuildOfFlight(k, N), n) : k \in Flights(list)}

\* several flights share a build, and more than one build is counted
C1_Witness ==
    /\ h_out.per_flight.called
    /\ "e1" \in ReusedNames
    /\ h_in.element_map["e1"].n = 2
    /\ h_in.element_reuses_dict["e1"] = Fin(3, 2)
    /\ h_in.vehicle_prod_nums_list = <<2, 3>>
    /\ h_out.per_flight.serials["e1"] = {3, 4}

\* C2: for num_reuses = N > 1 (whole) and vehicle_prod_nums_list = [1..N], the
\* element's contribution to average_prod_cost_per_flight is its contribution
\* to the production cost of the first vehicle build divided by N.
C2_AmortizedFirstBuild ==
    (h_out.per_flight.called /\ h_out.first_build.called) =>
        \A name \in ReusedNames :
            LET N == h_in.element_reuses_dict[name]
                list == h_in.vehicle_prod_nums_list
            IN  (N.d = 1 /\ First(list) = 1 /\ Last(list) = N.n) =>
                    h_out.per_flight.terms[name] =
                        NpDiv(h_out.first_build.terms[name], N)

C2_Witness ==
    /\ h_out.per_flight.called /\ h_out.first_build.called
    /\ "e1" \in ReusedNames
    /\ h_in.element_reuses_dict["e1"] = I(3)
    /\ h_in.vehicle_prod_nums_list = <<1, 2, 3>>
    /\ h_in.element_map["e1"].n = 2
    /\ h_in.element_map["e1"].cf.p = Fin(1, 2)
    /\ h_out.per_flight.terms["e1"] = Fin(1, 4)
    /\ h_out.first_build.terms["e1"] = Fin(3, 4)

\* the cost of the single unit with serial i of an element
UnitCost(name, i) ==
    average_element_production_cost(ElementNamed(HarnessVehicle, name),
        h_in.element_map[name].CER_vals, h_in.element_map[name].cf, {i})

RECURSIVE SumUnitCosts(_, _)
SumUnitCosts(name, S) ==
    IF S = {} THEN I(0)
    ELSE LET i == CHOOSE j \in S : TRUE
         IN  FAdd(SumUnitCosts(name, S \ {i}), UnitCost(name, i))

\* the summed per-unit costs of every element of the listed builds
RECURSIVE SumBuildCosts(_, _)
SumBuildCosts(names, builds) ==
    IF names = {} THEN I(0)
    ELSE LET name == CHOOSE x \in names : TRUE
         IN  FAdd(SumBuildCosts(names \ {name}, builds),
                  SumUnitCosts(name,
                      UNION {BuildSerials(k, h_in.element_map[name].n) : k \in builds}))

\* C3: average_vehicle_production_cost averages each element over exactly the
\* serials (first-1)*n + 1 .. last*n, the serials of the listed builds, and
\* returns f0_prod**N * f9 times the mean over the listed builds of the summed
\* per-unit costs.
C3_VehicleSerials ==
    h_out.full.called =>
        LET list == h_in.vehicle_prod_nums_list
        IN  /\ \A name \in ElementNames :
                LET n == h_in.element_map[name].n
                IN  /\ h_out.full.serials[name] =
                           {i \in ((First(list) - 1) * n + 1)..(Last(list) * n) : TRUE}
                    /\ h_out.full.serials[name] =
                           UNION {BuildSerials(k, n) : k \in Flights(list)}
            /\ h_out.full.value =
                   VehicleProdFactor(HarnessVehicle, HarnessVehicleFactors,
                       NpDiv(SumBuildCosts(ElementNames, Flights(list)), I(Len(list))))

C3_Witness ==
    /\ h_out.full.called
    /\ h_in.vehicle_prod_nums_list = <<2, 3>>
    /\ h_in.element_map["e1"].n = 2
    /\ h_in.element_map["e1"].cf.p = Fin(1, 2)
    /\ h_out.full.serials["e1"] = {3, 4, 5, 6}
    /\ h_out.full.serials["s1"] = {2, 3}

\* C3, second part: [1] expands to 1..n and [2] to n+1..2n
C3_Witness_Singletons ==
    /\ h_out.full.called
    /\ h_out.first_build.called
    /\ h_in.vehicle_prod_nums_list = <<2>>
    /\ h_in.element_map["e1"].n = 2
    /\ h_out.full.serials["e1"] = {3, 4}
    /\ h_out.first_build.serials["e1"] = {1, 2}

\* C4: an element absent from element_reuses_dict, or with num_reuses = 1,
\* contributes the same to average_prod_cost_per_flight as to
\* average_vehicle_production_cost; when no element has num_reuses > 1 the two
\* functions return the same value.
C4_NonReusedSame ==
    (h_out.per_flight.called /\ h_out.full.called) =>
        /\ \A name \in ElementNames :
              (name \notin DOMAIN h_in.element_reuses_dict
                    \/ h_in.element_reuses_dict[name] = I(1)) =>
                  /\ h_out.per_flight.terms[name] = h_out.full.terms[name]
                  /\ h_out.per_flight.serials[name] = h_out.full.serials[name]
        /\ (ReusedNames = {}) => h_out.per_flight.value = h_out.full.value

C4_Witness ==
    /\ h_out.per_flight.called /\ h_out.full.called
    /\ DOMAIN h_in.element_reuses_dict = {"s1", "e1"}
    /\ h_in.element_reuses_dict["s1"] = I(1)
    /\ h_in.element_reuses_dict["e1"] = I(1)
    /\ h_in.vehicle_prod_nums_list = <<2, 3>>
    /\ h_in.element_map["e1"].n = 2
    /\ h_in.element_map["e1"].cf.p = Fin(1, 2)
    /\ h_out.per_flight.value = h_out.full.value
    /\ FGt(h_out.per_flight.value, I(0))

-----------------------------------------------------------------------------
(* Performance: the two-stage payload solvers                              *)

\* numpy.log of a rational: nan below zero, -inf at zero, symbolic otherwise
NpLog(x) ==
    IF IsRaise(x) THEN Raise
    ELSE IF IsNaN(x) \/ x.k = "ninf" THEN NaN
    ELSE IF x.k = "pinf" THEN PInf
    ELSE IF Sgn(x) < 0 THEN NaN
    ELSE IF Sgn(x) = 0 THEN NInf
    ELSE IF x = I(1) THEN I(0)
    ELSE IF FLt(x, I(1)) THEN FNeg(Sym(Atom("-log", x, I(0), I(0))))
    ELSE Sym(Atom("log", x, I(0), I(0)))

\* What scipy.optimize.fsolve(..., full_output=True) hands back is not
\* computed by this program: the solution vector x and the flag ier are
\* taken as given, ier = 1 meaning that the solver reports convergence.
FsolveOut(ier, x) == [ier |-> ier, x |-> x]

Scalar(v) == [shape |-> "scalar", v |-> <<v>>]
Tuple(v) == [shape |-> "tuple", v |-> v]

\* a variant that returns pi_star without looking at its sign
payload_fixed_stages_nosign(y, return_all_pis, sol) ==
    IF sol.ier # 1 THEN Scalar(NaN)
    ELSE LET pi_1 == sol.x[1]
             pi_2 == FSub(FAdd(y, I(1)), NpDiv(y, pi_1))
             pi_star == FMul(pi_1, pi_2)
         IN  IF return_all_pis THEN Tuple(<<pi_star, pi_1, pi_2>>)
             ELSE Scalar(pi_star)

\* a variant that answers a failed solve with three not-a-numbers
payload_fixed_stages_alltuple(y, return_all_pis, sol) ==
    LET pi_1 == sol.x[1]
        pi_2 == FSub(FAdd(y, I(1)), NpDiv(y, pi_1))
        pi_star == FMul(pi_1, pi_2)
        failed == sol.ier # 1 \/ FLt(pi_star, I(0))
    IN  IF return_all_pis
        THEN (IF failed THEN Tuple(<<NaN, NaN, NaN>>) ELSE Tuple(<<pi_star, pi_1, pi_2>>))
        ELSE (IF failed THEN Scalar(NaN) ELSE Scalar(pi_star))

\* payload_fixed_stages(c_1, c_2, e_1, e_2, y, dv_mission, return_all_pis):
\* c_1, c_2, e_1, e_2 and dv_mission only enter root_fun, which fsolve calls
payload_fixed_stages(y, return_all_pis, sol) ==
    IF sol.ier # 1 THEN Scalar(NaN)
    ELSE LET pi_1 == sol.x[1]
             pi_2 == FSub(FAdd(y, I(1)), NpDiv(y, pi_1))
             pi_star == FMul(pi_1, pi_2)
         IN  IF FLt(pi_star, I(0)) THEN Scalar(NaN)
             ELSE IF return_all_pis THEN Tuple(<<pi_star, pi_1, pi_2>>)
             ELSE Scalar(pi_star)

dv_loss_ascent == 1000

stage_sep_velocity(c_1, e_1, pi_1) ==
    LET dv_1_ideal ==
            FMul(FNeg(c_1), NpLog(FAdd(e_1, FMul(FSub(I(1), e_1), pi_1))))
    IN  FSub(dv_1_ideal, I(dv_loss_ascent))

PerfResult(pi_star, pi_1, e_1, v_ss) ==
    [shape |-> "PerfResult", v |-> <<pi_star, pi_1, e_1, v_ss>>]

\* a variant that accepts a solved e_1 that is not positive
coupled_perf_solver_anye1(c_1, y, sol) ==
    IF sol.ier # 1 THEN Tuple(<<NaN, NaN>>)
    ELSE LET e_1 == sol.x[1]
             pi_1 == sol.x[2]
             pi_2 == FSub(FAdd(y, I(1)), NpDiv(y, pi_1))
             pi_star == FMul(pi_1, pi_2)
         IN  IF FLe(pi_1, I(0)) THEN Tuple(<<NaN, NaN>>)
             ELSE IF FLt(pi_star, I(0)) THEN Tuple(<<NaN, NaN>>)
             ELSE PerfResult(pi_star, pi_1, e_1, stage_sep_velocity(c_1, e_1, pi_1))

\* coupled_perf_solver(a, c_1, c_2, E_1, E_2, y, dv_mission,
\* recovery_propellant_func, z_m): what is left out only enters root_fun
coupled_perf_solver(c_1, y, sol) ==
    IF sol.ier # 1 THEN Tuple(<<NaN, NaN>>)
    ELSE LET e_1 == sol.x[1]
             pi_1 == sol.x[2]
             pi_2 == FSub(FAdd(y, I(1)), NpDiv(y, pi_1))
             pi_star == FMul(pi_1, pi_2)
         IN  IF FLe(pi_1, I(0)) \/ FLe(e_1, I(0)) THEN Tuple(<<NaN, NaN>>)
             ELSE IF FLt(pi_star, I(0)) THEN Tuple(<<NaN, NaN>>)
             ELSE PerfResult(pi_star, pi_1, e_1, stage_sep_velocity(c_1, e_1, pi_1))

\* propulsive_ls_perf builds recovery_propellant_func and calls the solver
propulsive_ls_perf(c_1, y, sol) == coupled_perf_solver(c_1, y, sol)

-----------------------------------------------------------------------------
(* Solver harness: the solvers applied to drawn root-finder outcomes       *)

MaxIer == 3     \* fsolve flags drawn: 1 (converged) .. MaxIer
MaxGrid == 6    \* solved fractions are drawn from the grid i/MaxGrid

GridValues == {Fin(i, MaxGrid) : i \in (-1)..(MaxGrid + 1)}
StageRatios == {Fin(1, 5), I(1)}

NoResult == [shape |-> "none", v |-> <<>>]

SolverInit ==
    /\ \E fn \in {"payload_fixed_stages", "coupled_perf_solver"},
          y \in StageRatios, all \in BOOLEAN, ier \in 1..MaxIer,
          x1 \in GridValues, x2 \in GridValues :
          /\ fn = "payload_fixed_stages" => x2 = I(0)
          /\ fn = "coupled_perf_solver" => ~all
          /\ s_in = [fn |-> fn, c_1 |-> I(3000), y |-> y, return_all_pis |-> all,
                     sol |-> FsolveOut(ier, <<x1, x2>>)]
    /\ s_out = NoResult
    /\ h_in = Idle /\ h_out = Idle
    /\ veh = Idle /\ props = Idle /\ strat = Idle /\ call = Idle /\ ncalls = 0

CallPayloadFixedStages ==
    /\ s_in.fn = "payload_fixed_stages"
    /\ s_out = NoResult
    /\ s_out' = payload_fixed_stages(s_in.y, s_in.return_all_pis, s_in.sol)
    /\ UNCHANGED <<h_in, h_out, s_in, veh, props, strat, call, ncalls>>

CallCoupledPerfSolver ==
    /\ s_in.fn = "coupled_perf_solver"
    /\ s_out = NoResult
    /\ s_out' = coupled_perf_solver(s_in.c_1, s_in.y, s_in.sol)
    /\ UNCHANGED <<h_in, h_out, s_in, veh, props, strat, call, ncalls>>

SolverNext ==
    \/ CallPayloadFixedStages
    \/ CallCoupledPerfSolver

SolverSpec == SolverInit /\ [][SolverNext]_vars

-----------------------------------------------------------------------------
(* Claims about the solvers (checked under SolverSpec)                     *)

\* pi_star as the solved pi_1 gives it
SolvedPiStar(pi_1) ==
    FMul(pi_1, FSub(FAdd(s_in.y, I(1)), NpDiv(s_in.y, pi_1)))

PayloadReturned == s_in.fn = "payload_fixed_stages" /\ s_out # NoResult
CoupledReturned == s_in.fn = "coupled_perf_solver" /\ s_out # NoResult

\* the payload fraction carried by a value payload_fixed_stages returned
ReturnedPiStar == s_out.v[1]

\* C6: payload_fixed_stages returns the not-a-number sentinel, and raises
\* nothing, whenever fsolve reports ier # 1 or the solved pi_star is negative;
\* a number is returned only when the solve converged and pi_star >= 0.
C6_PayloadSentinel ==
    PayloadReturned =>
        LET pi_star == SolvedPiStar(s_in.sol.x[1])
        IN  /\ \A i \in 1..Len(s_out.v) : ~IsRaise(s_out.v[i])
            /\ (s_in.sol.ier # 1 \/ FLt(pi_star, I(0))) => s_out = Scalar(NaN)
            /\ ~IsNaN(ReturnedPiStar) =>
                   /\ s_in.sol.ier = 1
                   /\ FLe(I(0), pi_star)
                   /\ ReturnedPiStar = pi_star

\* a converged solve with a negative pi_star
C6_Witness ==
    /\ PayloadReturned
    /\ s_in.sol.ier = 1
    /\ FLt(SolvedPiStar(s_in.sol.x[1]), I(0))
    /\ FGt(s_in.sol.x[1], I(0))
    /\ s_out = Scalar(NaN)

C6_Witness_Number ==
    /\ PayloadReturned
    /\ s_in.sol.ier = 1
    /\ ~s_in.return_all_pis
    /\ s_in.y = Fin(1, 5)
    /\ s_in.sol.x[1] = Fin(1, 2)
    /\ s_out = Scalar(Fin(2, 5))

\* C7: coupled_perf_solver returns the (nan, nan) sentinel, and raises
\* nothing, whenever fsolve does not converge, the solved pi_1 or e_1 is not
\* positive, or the solved pi_star is negative; only otherwise does it return
\* the bundle PerfResult(pi_star, pi_1, e_1, v_ss).
C7_CoupledSentinel ==
    CoupledReturned =>
        LET e_1 == s_in.sol.x[1]
            pi_1 == s_in.sol.x[2]
            pi_star == SolvedPiStar(pi_1)
            failed == \/ s_in.sol.ier # 1
                      \/ FLe(pi_1, I(0)) \/ FLe(e_1, I(0))
                      \/ FLt(pi_star, I(0))
        IN  /\ \A i \in 1..Len(s_out.v) : ~IsRaise(s_out.v[i])
            /\ failed => s_out = Tuple(<<NaN, NaN>>)
            /\ ~failed =>
                   /\ s_out.shape = "PerfResult"
                   /\ s_out.v[1] = pi_star /\ s_out.v[2] = pi_1 /\ s_out.v[3] = e_1
                   /\ s_out.v[4] = stage_sep_velocity(s_in.c_1, e_1, pi_1)

\* a converged solve whose e_1 is not positive, with pi_1 and pi_star fine
C7_Witness ==
    /\ CoupledReturned
    /\ s_in.sol.ier = 1
    /\ FLe(s_in.sol.x[1], I(0))
    /\ FGt(s_in.sol.x[2], I(0))
    /\ FGt(SolvedPiStar(s_in.sol.x[2]), I(0))
    /\ s_out = Tuple(<<NaN, NaN>>)

C7_Witness_Bundle ==
    /\ CoupledReturned
    /\ s_in.y = Fin(1, 5)
    /\ s_in.sol = FsolveOut(1, <<Fin(1, 6), Fin(1, 2)>>)
    /\ s_out.shape = "PerfResult"
    /\ s_out.v[1] = Fin(2, 5)

\* C8 as stated: whenever return_all_pis is requested, the returned value
\* carries pi_star, pi_1 and pi_2 (three components).
C8_AlwaysThreeComponents ==
    (PayloadReturned /\ s_in.return_all_pis) =>
        s_out.shape = "tuple" /\ Len(s_out.v) = 3

\* C8 amended: with return_all_pis requested, the returned value is the
\* triple (pi_star, pi_1, pi_2) when the solve converged and pi_star is not
\* negative, and the bare not-a-number sentinel otherwise.
C8_ThreeComponentsOnSuccess ==
    (PayloadReturned /\ s_in.return_all_pis) =>
        LET pi_1 == s_in.sol.x[1]
            pi_2 == FSub(FAdd(s_in.y, I(1)), NpDiv(s_in.y, pi_1))
            pi_star == SolvedPiStar(pi_1)
        IN  IF s_in.sol.ier = 1 /\ ~FLt(pi_star, I(0))
            THEN s_out = Tuple(<<pi_star, pi_1, pi_2>>)
            ELSE s_out = Scalar(NaN)

C8_Witness ==
    /\ PayloadReturned /\ s_in.return_all_pis
    /\ s_in.y = Fin(1, 5)
    /\ s_in.sol.ier = 1
    /\ s_in.sol.x[1] = Fin(1, 2)
    /\ s_out = Tuple(<<Fin(2, 5), Fin(1, 2), Fin(4, 5)>>)

\* C8: a failed solve with return_all_pis requested hands back one value
C8_Witness_FailedSolve ==
    /\ PayloadReturned /\ s_in.return_all_pis
    /\ s_in.sol.ier # 1
    /\ s_out = Scalar(NaN)

-----------------------------------------------------------------------------
(* Performance: mass budget                                                *)

\* returns (m_inert_1, m_inert_recov_1)
inert_masses(m_1, H, z_m, E_1) ==
    LET chi_r == PyDiv(FMul(H, z_m), FSub(I(1), H))
        denom == FAdd(FAdd(I(1), chi_r), PyDiv(FSub(I(1), E_1), E_1))
    IN  <<FMul(m_1, PyDiv(FAdd(I(1), chi_r), denom)),
          FMul(m_1, PyDiv(FAdd(z_m, chi_r), denom))>>

\* 'H2' in propellant, 'kero' in propellant, for the propellant strings
\* fuel + '/' + oxidizer the technologies give
ContainsH2(propellant) == propellant \in {"H2/O2"}
ContainsKero(propellant) == propellant \in {"kerosene/O2"}

\* the thrust/weight ratio after the propellant branches have run
EngineTW(propellant, tw, tw_H2, tw_kero) ==
    LET tw1 == IF propellant # "None" /\ ContainsH2(propellant) THEN I(tw_H2) ELSE tw
    IN  IF propellant # "None" /\ ContainsKero(propellant) THEN I(tw_kero) ELSE tw1

\* thrust / (tw * g_0 * n_engines), formed as (thrust / g_0) / (tw * n_engines)
booster_engine_mass(m_0, n_engines, propellant, tw, accel) ==
    IF propellant = "None" /\ IsNone(tw) THEN Raise
    ELSE LET thrust == FMul(m_0, FAdd(accel, Sym(AtomG0)))
         IN  NpDiv(DivG0(thrust),
                   FMul(EngineTW(propellant, tw, 50, 80), I(n_engines)))

upper_engine_mass(m_0_2, n_engines, propellant, tw, accel) ==
    IF propellant = "None" /\ IsNone(tw) THEN Raise
    ELSE LET thrust == FMul(m_0_2, accel)
         IN  NpDiv(DivG0(thrust),
                   FMul(EngineTW(propellant, tw, 33, 63), I(n_engines)))

-----------------------------------------------------------------------------
(* Cost: operations, development, propellants                              *)

\* x ** e for the non-integer exponents of the operations cost laws, of a
\* positive rational x; None raises TypeError
RealPow(x, e) ==
    IF IsNone(x) \/ IsRaise(x) THEN Raise
    ELSE IF x = I(1) THEN I(1)
    ELSE Sym(Atom(e, x, I(0), I(0)))

\* M0**0.67 * launch_rate**-0.9 * N**0.7
GroundOpsLaw(M0, launch_rate, N) ==
    IF IsNone(launch_rate) \/ IsRaise(M0) THEN Raise
    ELSE IF M0 = I(0) THEN I(0)
    ELSE Sym(Atom("M0**0.67 * launch_rate**-0.9 * N**0.7", M0, launch_rate, I(N)))

\* a variant that refuses launch rates below the validated range
preflight_ground_ops_cost_strict(lv, launch_rate, ops_cost_factors, launch_nums_list) ==
    IF IsNone(launch_rate) \/ FLt(launch_rate, I(3)) THEN Raise
    ELSE FMul(FMul(FMul(FMul(FMul(FMul(I(8), GroundOpsLaw(lv.M0, launch_rate, lv.N)),
              ops_cost_factors.fv), ops_cost_factors.fc),
              cost_reduction_factor(ops_cost_factors.p, launch_nums_list)),
              ops_cost_factors.f8), ops_cost_factors.f11)

\* the comparison launch_rate < 3 raises TypeError for None; the warning it
\* guards is printed and changes no value
preflight_ground_ops_cost(lv, launch_rate, ops_cost_factors, launch_nums_list) ==
    IF IsNone(launch_rate) THEN Raise
    ELSE CHOOSE cost \in
             {FMul(FMul(FMul(FMul(FMul(FMul(I(8), GroundOpsLaw(lv.M0, launch_rate, lv.N)),
                   ops_cost_factors.fv), ops_cost_factors.fc), f4_avg),
                   ops_cost_factors.f8), ops_cost_factors.f11) :
                 f4_avg \in {cost_reduction_factor(ops_cost_factors.p,
                                                   launch_nums_list)}} : TRUE

\* num_crew = 0: the crewed term is not added
flight_mission_ops_cost(sum_QN, launch_rate, ops_cost_factors, launch_nums_list) ==
    CHOOSE cost \in
        {FMul(FMul(FMul(FMul(I(20), sum_QN), RealPow(launch_rate, "launch_rate**-0.65")),
              f4_avg), ops_cost_factors.f8) :
            f4_avg \in {cost_reduction_factor(ops_cost_factors.p, launch_nums_list)}} :
        TRUE

ioc_data(launch_provider_type) ==
    CASE launch_provider_type = "A" -> <<65, 49, 42, 38, 35, 33, 31, 30, 29, 27, 26, 25>>
      [] launch_provider_type = "B" -> <<45, 34, 29, 27, 24, 23, 22, 21, 20, 19, 18, 17>>
      [] launch_provider_type = "C" -> <<32, 24, 22, 19, 18, 17, 16, 15, 14, 13, 12, 11>>

\* a variant that continues the first and the last segment of the table
\* beyond its ends
indirect_ops_cost_extrapolate(launch_rate, launch_provider_type) ==
    LET ioc_line == ioc_data(launch_provider_type)
        i == IF FLt(launch_rate, I(2)) THEN 1
             ELSE IF FLe(I(11), launch_rate) THEN 11
             ELSE launch_rate.n \div launch_rate.d
    IN  IF ~IsRat(launch_rate) THEN Raise
        ELSE FAdd(I(ioc_line[i]),
                  FMul(FSub(launch_rate, I(i)), I(ioc_line[i + 1] - ioc_line[i])))

\* numpy.interp(launch_rate, range(1, 13), ioc_line)
indirect_ops_cost(launch_rate, launch_provider_type) ==
    LET ioc_line == ioc_data(launch_provider_type)
    IN  IF IsNone(launch_rate) \/ IsRaise(launch_rate) THEN Raise
        ELSE IF IsNaN(launch_rate) THEN NaN
        ELSE IF FLe(launch_rate, I(1)) THEN I(ioc_line[1])
        ELSE IF FLe(I(12), launch_rate) THEN I(ioc_line[12])
        ELSE LET i == launch_rate.n \div launch_rate.d
             IN  FAdd(I(ioc_line[i]),
                      FMul(FSub(launch_rate, I(i)), I(ioc_line[i + 1] - ioc_line[i])))

\* lvreuse.data.propellants.propellant_cost_list [WYr/kg]: H2 2.7623e-5,
\* O2 8.1019e-7, MMH 0.0013117, N2O4 3.3951e-5, kerosene 1.1117e-5.  Each
\* price is a positive quantity kept by name, so that a propellant bill is
\* the list of masses bought at each price.
propellant_cost_list(prop) ==
    CASE prop = "H2" -> Sym(Atom("propellant_cost_list['H2']", I(0), I(0), I(0)))
      [] prop = "O2" -> Sym(Atom("propellant_cost_list['O2']", I(0), I(0), I(0)))
      [] prop = "MMH" -> Sym(Atom("propellant_cost_list['MMH']", I(0), I(0), I(0)))
      [] prop = "N2O4" -> Sym(Atom("propellant_cost_list['N2O4']", I(0), I(0), I(0)))
      [] prop = "kerosene" -> Sym(Atom("propellant_cost_list['kerosene']", I(0), I(0), I(0)))

RECURSIVE SumPropsCost(_, _)
SumPropsCost(vehicle_props_dict, names) ==
    IF names = {} THEN I(0)
    ELSE LET prop == CHOOSE x \in names : TRUE
         IN  FAdd(SumPropsCost(vehicle_props_dict, names \ {prop}),
                  FMul(propellant_cost_list(prop), vehicle_props_dict[prop]))

get_props_cost(vehicle_props_dict) ==
    SumPropsCost(vehicle_props_dict, DOMAIN vehicle_props_dict)

\* a variant that counts an element's development once per unit
RECURSIVE SumDevCost_perunit(_, _, _)
SumDevCost_perunit(element_list, i, element_map) ==
    IF i = 0 THEN I(0)
    ELSE FAdd(SumDevCost_perunit(element_list, i - 1, element_map),
              FMul(I(element_map[element_list[i].name].n),
                   element_development_cost(element_list[i],
                       element_map[element_list[i].name].CER_vals,
                       element_map[element_list[i].name].cf)))

RECURSIVE SumDevCost(_, _, _)
SumDevCost(element_list, i, element_map) ==
    IF i = 0 THEN I(0)
    ELSE CHOOSE r \in
            {FAdd(dev_cost, term) :
                dev_cost \in {SumDevCost(element_list, i - 1, element_map)},
                term \in {element_development_cost(element_list[i],
                              element_map[element_list[i].name].CER_vals,
                              element_map[element_list[i].name].cf)}} : TRUE

\* the statements after the loop, reached when every pass found its entry
DevCostAfterLoop(lv, vcf, passes, dev_cost) ==
    IF passes < Len(lv.element_list) THEN KeyErrorAfter(dev_cost)
    ELSE FMul(FMul(FMul(vcf.f0_dev, dev_cost), vcf.f6), vcf.f7)

vehicle_development_cost(lv, vcf, element_map) ==
    DevCostAfterLoop(lv, vcf, LoopPasses(lv.element_list, element_map),
        SumDevCost(lv.element_list, LoopPasses(lv.element_list, element_map), element_map))

element_refurb_cost(lv, element_name, ops_cost_factors, element_map) ==
    LET entry == element_map[element_name]
        TFU == average_element_production_cost(ElementNamed(lv, element_name),
                   entry.CER_vals, entry.cf, {1})
    IN  FMul(FMul(I(entry.n), ops_cost_factors.f5_dict[element_name]), TFU)

RECURSIVE SumRefurb(_, _, _, _)
SumRefurb(lv, names, ops_cost_factors, element_map) ==
    IF names = {} THEN I(0)
    ELSE LET element_name == CHOOSE x \in names : TRUE
         IN  CHOOSE r \in
                 {FAdd(refurb_cost, term) :
                     refurb_cost \in {SumRefurb(lv, names \ {element_name},
                                                ops_cost_factors, element_map)},
                     term \in {element_refurb_cost(lv, element_name, ops_cost_factors,
                                                   element_map)}} : TRUE

\* evaluate_cost hands this method element_reuses_dict as a further argument;
\* the sum below is the method's body, which reads f5_dict and element_map
total_refurbishment_cost(lv, ops_cost_factors, element_map) ==
    SumRefurb(lv, DOMAIN ops_cost_factors.f5_dict, ops_cost_factors, element_map)

\* LaunchVehicle.average_portion_prod_cost_per_flight is called by
\* evaluate_cost; it is the per-flight production cost of the named elements,
\* before the vehicle-level factors, so that what is left of
\* prod_cost_per_flight is the vehicle integration and checkout share.
RECURSIVE SumPortion(_, _, _, _, _, _)
SumPortion(element_list, i, element_reuses_dict, element_map, vehicle_prod_nums_list, names) ==
    IF i = 0 THEN I(0)
    ELSE CHOOSE r \in
            {FAdd(sum_prod_cost, term) :
                sum_prod_cost \in {SumPortion(element_list, i - 1, element_reuses_dict,
                                              element_map, vehicle_prod_nums_list, names)},
                term \in {IF element_list[i].name \in names
                          THEN PerFlightProdTerm(element_list[i],
                                   element_map[element_list[i].name],
                                   element_reuses_dict, vehicle_prod_nums_list)
                          ELSE I(0)}} : TRUE

average_portion_prod_cost_per_flight(lv, element_reuses_dict, element_map, vcf, vehicle_prod_nums_list, names) ==
    SumPortion(lv.element_list, Len(lv.element_list), element_reuses_dict, element_map,
               vehicle_prod_nums_list, names)

-----------------------------------------------------------------------------
(* Strategy and VehicleArchitecture                                        *)

kero_GG_boost_tech ==
    [fuel |-> "kerosene", oxidizer |-> "O2", of_mass_ratio |-> Fin(23, 10), n_engines |-> 9]
kero_GG_upper_tech ==
    [fuel |-> "kerosene", oxidizer |-> "O2", of_mass_ratio |-> Fin(23, 10), n_engines |-> 1]

Element(cls, name) == [name |-> name, m |-> I(0), cls |-> cls]

\* every element starts with m = 0; a winged first stage is a
\* VTOStageFlybackVehicle, followed by the expendable tank when the stage is
\* partly reused, the rocket engine, and the air-breathing engine when ab_rec
construct_launch_vehicle(stage_type, prop_choice, portion_reused, ab_rec) ==
    LET stage1_engine == IF prop_choice = "H2" THEN Element("CryoLH2TurboFed", "e1")
                         ELSE Element("StorableTurboFed", "e1")
        expendable == IF prop_choice = "H2" THEN Element("ExpendableBallisticStageLH2", "s1")
                      ELSE Element("ExpendableBallisticStageStorable", "s1")
        reusable == IF prop_choice = "H2" THEN Element("ReusableBallisticStageLH2", "s1")
                    ELSE Element("ReusableBallisticStageStorable", "s1")
        stage1_list ==
            IF stage_type = "winged"
            THEN <<Element("VTOStageFlybackVehicle", "s1")>>
                 \o (IF portion_reused = "partial"
                     THEN <<Element("ExpendableTank", "d1")>> ELSE <<>>)
                 \o <<stage1_engine>>
                 \o (IF ab_rec THEN <<Element("TurboJetEngine", "ab")>> ELSE <<>>)
            ELSE CASE portion_reused = "none" -> <<expendable, stage1_engine>>
                   [] portion_reused = "full" -> <<reusable, stage1_engine>>
                   [] portion_reused = "partial" ->
                         <<reusable, Element("ExpendableTank", "d1"), stage1_engine>>
    IN  [name |-> "veh", M0 |-> I(0),
         N |-> IF portion_reused = "partial" THEN 3 ELSE 2,
         element_list |->
            <<Element("ExpendableBallisticStageStorable", "s2"),
              Element("StorableTurboFed", "e2")>> \o stage1_list]

\* the shortest list with two builds, starting like the module's
\* vehicle_prod_nums_list = list(range(20, 60))
vehicle_prod_nums_list == <<20, 21>>
vehicle_launch_nums_list == vehicle_prod_nums_list

\* the distinct numbers of a list, as cost_reduction_factor takes them
ListItems(list) == {list[i] : i \in 1..Len(list)}

StrategyKinds == {"Expendable", "PropulsiveLaunchSite"}

\* Strategy.__init__ and the subclass constructors: the fields the
\* evaluation reads.  The mission carries a 1 kg payload.
Strategy(kind) ==
    [kind |-> kind,
     portion_recovered |-> IF kind = "Expendable" THEN "none" ELSE "full",
     tech_1 |-> kero_GG_boost_tech,
     tech_2 |-> kero_GG_upper_tech,
     mission |-> [m_payload |-> I(1)],
     y |-> Fin(1, 5),
     num_engines_dict |-> [e1 |-> kero_GG_boost_tech.n_engines,
                           e2 |-> kero_GG_upper_tech.n_engines],
     f8_dict |-> [s1 |-> I(1), e1 |-> I(1), s2 |-> I(1), e2 |-> I(1),
                  veh |-> I(1), ops |-> I(1), ab |-> I(1), d1 |-> I(1)],
     fv |-> Fin(8, 10),
     fc |-> Fin(7, 10),
     sum_QN |-> IF kind = "Expendable" THEN FMul(I(2), Fin(4, 10))
                ELSE FAdd(I(1), Fin(4, 10)),
     launch_provider_type |-> "C"]

InitialVehicle(kind) ==
    construct_launch_vehicle("ballistic", Strategy(kind).tech_1.fuel,
                             Strategy(kind).portion_recovered, FALSE)

\* vehicle_props_dict[name] = 0 for every propellant of the two technologies
InitialProps(kind) ==
    [name \in {Strategy(kind).tech_1.fuel, Strategy(kind).tech_1.oxidizer,
               Strategy(kind).tech_2.fuel, Strategy(kind).tech_2.oxidizer} |-> I(0)]

Propellant(tech) == IF tech.fuel = "H2" THEN "H2/O2" ELSE "kerosene/O2"

MassKeys(self) ==
    {"m0", "s1", "s2", "e1", "e2",
     self.tech_1.fuel, self.tech_2.fuel, self.tech_1.oxidizer, self.tech_2.oxidizer}

\* a variant whose closing loop asserts the structural masses only
get_masses_structural(self, pi_star, a, E_1, E_2) ==
    LET m_payload == self.mission.m_payload
        Budget(m_0, m_1, m_2, m_inert_1, m_inert_2, m_eng_1, m_eng_2, m_fuel) ==
            [raised |-> ~FGt(m_0, I(0)) \/ ~FGt(m_eng_1, I(0)) \/ ~FGt(m_eng_2, I(0)),
             mass_dict |->
                [key \in MassKeys(self) |->
                    CASE key = "m0" -> m_0
                      [] key = "s1" -> FSub(m_inert_1, FMul(m_eng_1, I(self.tech_1.n_engines)))
                      [] key = "s2" -> FSub(m_inert_2, FMul(m_eng_2, I(self.tech_2.n_engines)))
                      [] key = "e1" -> m_eng_1
                      [] key = "e2" -> m_eng_2
                      [] key \in {self.tech_1.fuel, self.tech_2.fuel} -> m_fuel
                      [] OTHER -> FSub(FSub(FAdd(m_1, m_2), FAdd(m_inert_1, m_inert_2)), m_fuel)]]
        Stages(m_0, m_1, m_2) ==
            Budget(m_0, m_1, m_2,
                inert_masses(m_1, a, I(1), E_1)[1],
                FMul(E_2, m_2),
                booster_engine_mass(m_0, self.tech_1.n_engines,
                                    Propellant(self.tech_1), NoneVal, I(2)),
                upper_engine_mass(FAdd(m_2, m_payload), self.tech_2.n_engines,
                                  Propellant(self.tech_2), NoneVal, I(10)),
                FMul(PyDiv(I(1), FAdd(I(1), self.tech_1.of_mass_ratio)),
                     FSub(FAdd(m_1, m_2),
                          FAdd(inert_masses(m_1, a, I(1), E_1)[1], FMul(E_2, m_2)))))
        Liftoff(m_0) ==
            Stages(m_0,
                   FMul(PyDiv(I(1), FAdd(I(1), self.y)), FSub(m_0, m_payload)),
                   FMul(PyDiv(self.y, FAdd(I(1), self.y)), FSub(m_0, m_payload)))
    IN  Liftoff(NpDiv(m_payload, pi_star))

\* Strategy.get_masses: the dictionary, or the AssertionError of a mass that
\* is not > 0 (or an exception raised while computing)
get_masses(self, pi_star, a, E_1, E_2) ==
    LET m_payload == self.mission.m_payload
        Checked(mass_dict) ==
            [raised |-> \E key \in MassKeys(self) : ~FGt(mass_dict[key], I(0)),
             mass_dict |-> mass_dict]
        Budget(m_0, m_1, m_2, m_inert_1, m_inert_2, m_eng_1, m_eng_2) ==
            LET m_p_1 == FSub(m_1, m_inert_1)
                m_fuel_1 == FMul(PyDiv(I(1), FAdd(I(1), self.tech_1.of_mass_ratio)), m_p_1)
                m_oxidizer_1 == FSub(m_p_1, m_fuel_1)
                m_p_2 == FSub(m_2, m_inert_2)
                m_fuel_2 == FMul(PyDiv(I(1), FAdd(I(1), self.tech_2.of_mass_ratio)), m_p_2)
                m_oxidizer_2 == FSub(m_p_2, m_fuel_2)
            IN  [key \in MassKeys(self) |->
                    CASE key = "m0" -> m_0
                      [] key = "s1" -> FSub(m_inert_1, FMul(m_eng_1, I(self.tech_1.n_engines)))
                      [] key = "s2" -> FSub(m_inert_2, FMul(m_eng_2, I(self.tech_2.n_engines)))
                      [] key = "e1" -> m_eng_1
                      [] key = "e2" -> m_eng_2
                      [] key = self.tech_1.fuel ->
                            IF self.tech_1.fuel = self.tech_2.fuel
                            THEN FAdd(m_fuel_1, m_fuel_2) ELSE m_fuel_1
                      [] key = self.tech_2.fuel -> m_fuel_2
                      [] key = self.tech_1.oxidizer ->
                            IF self.tech_1.oxidizer = self.tech_2.oxidizer
                            THEN FAdd(m_oxidizer_1, m_oxidizer_2) ELSE m_oxidizer_1
                      [] key = self.tech_2.oxidizer -> m_oxidizer_2]
        Stages(m_0, m_1, m_2) ==
            Checked(Budget(m_0, m_1, m_2,
                inert_masses(m_1, a, I(1), E_1)[1],
                FMul(E_2, m_2),
                booster_engine_mass(m_0, self.tech_1.n_engines,
                                    Propellant(self.tech_1), NoneVal, I(2)),
                upper_engine_mass(FAdd(m_2, m_payload), self.tech_2.n_engines,
                                  Propellant(self.tech_2), NoneVal, I(10))))
        Liftoff(m_0) ==
            Stages(m_0,
                   FMul(PyDiv(I(1), FAdd(I(1), self.y)), FSub(m_0, m_payload)),
                   FMul(PyDiv(self.y, FAdd(I(1), self.y)), FSub(m_0, m_payload)))
    IN  Liftoff(NpDiv(m_payload, pi_star))

\* the keys of the dictionary ParachutePartial.get_masses builds
PartialMassKeys(self) == MassKeys(self) \cup {"d1"}

\* ParachutePartial.get_masses.  z_m is what self.get_z_m_engine_pod(E_1)
\* returned, a fraction the callers of this operator draw.
ParachutePartial_get_masses(self, z_m, pi_star, a, E_1, E_2) ==
    LET m_payload == self.mission.m_payload
        Checked(mass_dict) ==
            [raised |-> \E key \in PartialMassKeys(self) : ~FGt(mass_dict[key], I(0)),
             mass_dict |-> mass_dict]
        Budget(m_0, m_1, m_2, m_inert, m_inert_2, m_eng_1, m_eng_2) ==
            LET m_inert_1 == m_inert[1]
                m_inert_recov_1 == m_inert[2]
                m_dispose_1 == FSub(m_inert_1, m_inert_recov_1)
                m_p_1 == FSub(m_1, m_inert_1)
                m_fuel_1 == FMul(PyDiv(I(1), FAdd(I(1), self.tech_1.of_mass_ratio)), m_p_1)
                m_oxidizer_1 == FSub(m_p_1, m_fuel_1)
                m_p_2 == FSub(m_2, m_inert_2)
                m_fuel_2 == FMul(PyDiv(I(1), FAdd(I(1), self.tech_2.of_mass_ratio)), m_p_2)
                m_oxidizer_2 == FSub(m_p_2, m_fuel_2)
            IN  [key \in PartialMassKeys(self) |->
                    CASE key = "m0" -> m_0
                      [] key = "s1" ->
                            FSub(m_inert_recov_1, FMul(m_eng_1, I(self.tech_1.n_engines)))
                      [] key = "s2" -> FSub(m_inert_2, FMul(m_eng_2, I(self.tech_2.n_engines)))
                      [] key = "e1" -> m_eng_1
                      [] key = "e2" -> m_eng_2
                      [] key = "d1" -> m_dispose_1
                      [] key = self.tech_1.fuel ->
                            IF self.tech_1.fuel = self.tech_2.fuel
                            THEN FAdd(m_fuel_1, m_fuel_2) ELSE m_fuel_1
                      [] key = self.tech_2.fuel -> m_fuel_2
                      [] key = self.tech_1.oxidizer ->
                            IF self.tech_1.oxidizer = self.tech_2.oxidizer
                            THEN FAdd(m_oxidizer_1, m_oxidizer_2) ELSE m_oxidizer_1
                      [] key = self.tech_2.oxidizer -> m_oxidizer_2]
        Stages(m_0, m_1, m_2) ==
            Checked(Budget(m_0, m_1, m_2,
                inert_masses(m_1, a, z_m, E_1),
                FMul(E_2, m_2),
                booster_engine_mass(m_0, self.tech_1.n_engines,
                                    Propellant(self.tech_1), NoneVal, I(2)),
                upper_engine_mass(FAdd(m_2, m_payload), self.tech_2.n_engines,
                                  Propellant(self.tech_2), NoneVal, I(10))))
        Liftoff(m_0) ==
            Stages(m_0,
                   FMul(PyDiv(I(1), FAdd(I(1), self.y)), FSub(m_0, m_payload)),
                   FMul(PyDiv(self.y, FAdd(I(1), self.y)), FSub(m_0, m_payload)))
    IN  Liftoff(NpDiv(m_payload, pi_star))

\* the elements update_masses can assign before a missing key raises KeyError
RECURSIVE Assignable(_, _, _)
Assignable(element_list, i, masses_dict) ==
    IF i > Len(element_list) THEN i - 1
    ELSE IF element_list[i].cls = "VTOStageFlybackVehicle"
         THEN (IF {"s1", "e1"} \subseteq DOMAIN masses_dict
               THEN Assignable(element_list, i + 1, masses_dict) ELSE i - 1)
    ELSE IF element_list[i].name \in DOMAIN masses_dict
         THEN Assignable(element_list, i + 1, masses_dict) ELSE i - 1

\* a variant that leaves the take-off mass M0 as it was
update_masses_keepM0(lv, vehicle_props_dict, num_engines_dict, masses_dict) ==
    [raised |-> FALSE,
     lv |-> [lv EXCEPT !.element_list =
                 [i \in 1..Len(lv.element_list) |->
                     [lv.element_list[i] EXCEPT !.m = masses_dict[lv.element_list[i].name]]]],
     vehicle_props_dict |-> [prop \in DOMAIN vehicle_props_dict |-> masses_dict[prop]]]

\* a variant that leaves the propellant masses as they were
update_masses_keepprops(lv, vehicle_props_dict, num_engines_dict, masses_dict) ==
    [raised |-> FALSE,
     lv |-> [lv EXCEPT !.M0 = PyDiv(masses_dict["m0"], I(1000)),
                       !.element_list =
                 [i \in 1..Len(lv.element_list) |->
                     [lv.element_list[i] EXCEPT !.m = masses_dict[lv.element_list[i].name]]]],
     vehicle_props_dict |-> vehicle_props_dict]

\* a variant that also counts a stage more in the vehicle's N
update_masses_addsN(lv, vehicle_props_dict, num_engines_dict, masses_dict) ==
    [raised |-> FALSE,
     lv |-> [lv EXCEPT !.M0 = PyDiv(masses_dict["m0"], I(1000)),
                       !.N = lv.N + 1,
                       !.element_list =
                 [i \in 1..Len(lv.element_list) |->
                     [lv.element_list[i] EXCEPT !.m = masses_dict[lv.element_list[i].name]]]],
     vehicle_props_dict |-> [prop \in DOMAIN vehicle_props_dict |-> masses_dict[prop]]]

\* a variant that leaves the air-breathing engines out of the fly-back
\* stage's mass
update_masses_noairbreathing(lv, vehicle_props_dict, num_engines_dict, masses_dict) ==
    LET last == Assignable(lv.element_list, 1, masses_dict)
        owe == FAdd(masses_dict["s1"], FMul(I(num_engines_dict["e1"]), masses_dict["e1"]))
        done == last = Len(lv.element_list)
                    /\ DOMAIN vehicle_props_dict \subseteq DOMAIN masses_dict
    IN  [raised |-> ~done,
         lv |-> [lv EXCEPT !.M0 = PyDiv(masses_dict["m0"], I(1000)),
                           !.element_list =
                     [i \in 1..Len(lv.element_list) |->
                         IF i > last THEN lv.element_list[i]
                         ELSE IF lv.element_list[i].cls = "VTOStageFlybackVehicle"
                              THEN [lv.element_list[i] EXCEPT !.m = owe]
                         ELSE [lv.element_list[i] EXCEPT
                                  !.m = masses_dict[lv.element_list[i].name]]]],
         vehicle_props_dict |->
             IF done THEN [prop \in DOMAIN vehicle_props_dict |-> masses_dict[prop]]
             ELSE vehicle_props_dict]

\* VehicleArchitecture.update_masses: the vehicle and the propellant
\* dictionary as the method leaves them, and whether it raised KeyError.
\* The propellants of vehicle_props_dict are those of the two technologies,
\* which get_masses always puts in the dictionary it returns.
update_masses(lv, vehicle_props_dict, num_engines_dict, masses_dict) ==
    LET last == Assignable(lv.element_list, 1, masses_dict)
        owe == IF "ab" \in DOMAIN masses_dict
               THEN FAdd(FAdd(masses_dict["s1"],
                              FMul(I(num_engines_dict["e1"]), masses_dict["e1"])),
                         FMul(I(num_engines_dict["ab"]), masses_dict["ab"]))
               ELSE FAdd(masses_dict["s1"],
                         FMul(I(num_engines_dict["e1"]), masses_dict["e1"]))
        elements_done == last = Len(lv.element_list)
        props_done == DOMAIN vehicle_props_dict \subseteq DOMAIN masses_dict
    IN  [raised |-> ~(elements_done /\ props_done),
         lv |-> [lv EXCEPT !.M0 = PyDiv(masses_dict["m0"], I(1000)),
                           !.element_list =
                     [i \in 1..Len(lv.element_list) |->
                         IF i > last THEN lv.element_list[i]
                         ELSE IF lv.element_list[i].cls = "VTOStageFlybackVehicle"
                              THEN [lv.element_list[i] EXCEPT !.m = owe]
                         ELSE [lv.element_list[i] EXCEPT
                                  !.m = masses_dict[lv.element_list[i].name]]]],
         vehicle_props_dict |->
             IF elements_done /\ props_done
             THEN [prop \in DOMAIN vehicle_props_dict |-> masses_dict[prop]]
             ELSE vehicle_props_dict]

\* the keyword defaults of TwoLiquidStageTwoEngine.evaluate_cost
DefaultKwargs ==
    [f0_prod_veh |-> I(1), f0_dev_veh |-> I(1), f6_veh |-> I(1), f7_veh |-> I(1),
     f9_veh |-> I(1),
     f1_s1 |-> I(1), f2_s1 |-> I(1), f3_s1 |-> I(1), dev_a_s1 |-> I(1), dev_x_s1 |-> 1,
     f1_e1 |-> I(1), f2_e1 |-> I(1), f3_e1 |-> I(1), dev_a_e1 |-> I(1), dev_x_e1 |-> 1,
     f1_s2 |-> I(1), f2_s2 |-> I(1), f3_s2 |-> I(1), dev_a_s2 |-> I(1), dev_x_s2 |-> 1,
     f1_e2 |-> I(1), f2_e2 |-> I(1), f3_e2 |-> I(1), dev_a_e2 |-> I(1), dev_x_e2 |-> 1,
     f10_s1 |-> I(1), f11_s1 |-> I(1), p_s1 |-> I(1), prod_a_s1 |-> I(1), prod_x_s1 |-> 1,
     f10_e1 |-> I(1), f11_e1 |-> I(1), p_e1 |-> I(1), prod_a_e1 |-> I(1), prod_x_e1 |-> 1,
     f10_s2 |-> I(1), f11_s2 |-> I(1), p_s2 |-> I(1), prod_a_s2 |-> I(1), prod_x_s2 |-> 1,
     f10_e2 |-> I(1), f11_e2 |-> I(1), p_e2 |-> I(1), prod_a_e2 |-> I(1), prod_x_e2 |-> 1,
     f5_s1 |-> I(0), f5_e1 |-> I(0), f11_ops |-> I(1), p_ops |-> I(1),
     num_reuses_s1 |-> I(1), num_reuses_e1 |-> I(1),
     num_program_flights |-> I(1), profit_multiplier |-> I(1), launch_rate |-> NoneVal,
     fees |-> I(0), insurance |-> I(0), recovery_cost |-> I(0), frac_dev_paid |-> I(0)]

\* the parameters of a call: the keywords given, the defaults for the rest
Kwargs(given) ==
    [name \in DOMAIN DefaultKwargs |->
        IF name \in DOMAIN given THEN given[name] ELSE DefaultKwargs[name]]

\* TwoLiquidStageTwoEngine.evaluate_cost; self is the Strategy whose fields
\* the VehicleArchitecture was constructed with.  The value is the returned
\* tuple, or <<Raise>> when an exception leaves the method.
evaluate_cost(self, lv, vehicle_props_dict, kw) ==
    LET element_map ==
            [s1 |-> [CER_vals |-> [dev_a |-> kw.dev_a_s1, dev_x |-> kw.dev_x_s1,
                                   prod_a |-> kw.prod_a_s1, prod_x |-> kw.prod_x_s1],
                     cf |-> [f1 |-> kw.f1_s1, f2 |-> kw.f2_s1, f3 |-> kw.f3_s1,
                             f8 |-> self.f8_dict["s1"], f10 |-> kw.f10_s1,
                             f11 |-> kw.f11_s1, p |-> kw.p_s1],
                     n |-> 1],
             e1 |-> [CER_vals |-> [dev_a |-> kw.dev_a_e1, dev_x |-> kw.dev_x_e1,
                                   prod_a |-> kw.prod_a_e1, prod_x |-> kw.prod_x_e1],
                     cf |-> [f1 |-> kw.f1_e1, f2 |-> kw.f2_e1, f3 |-> kw.f3_e1,
                             f8 |-> self.f8_dict["e1"], f10 |-> kw.f10_e1,
                             f11 |-> kw.f11_e1, p |-> kw.p_e1],
                     n |-> self.num_engines_dict["e1"]],
             s2 |-> [CER_vals |-> [dev_a |-> kw.dev_a_s2, dev_x |-> kw.dev_x_s2,
                                   prod_a |-> kw.prod_a_s2, prod_x |-> kw.prod_x_s2],
                     cf |-> [f1 |-> kw.f1_s2, f2 |-> kw.f2_s2, f3 |-> kw.f3_s2,
                             f8 |-> self.f8_dict["s2"], f10 |-> kw.f10_s2,
                             f11 |-> kw.f11_s2, p |-> kw.p_s2],
                     n |-> 1],
             e2 |-> [CER_vals |-> [dev_a |-> kw.dev_a_e2, dev_x |-> kw.dev_x_e2,
                                   prod_a |-> kw.prod_a_e2, prod_x |-> kw.prod_x_e2],
                     cf |-> [f1 |-> kw.f1_e2, f2 |-> kw.f2_e2, f3 |-> kw.f3_e2,
                             f8 |-> self.f8_dict["e2"], f10 |-> kw.f10_e2,
                             f11 |-> kw.f11_e2, p |-> kw.p_e2],
                     n |-> self.num_engines_dict["e2"]]]
        veh_cost_factors ==
            [f0_dev |-> kw.f0_dev_veh, f0_prod |-> kw.f0_prod_veh, f6 |-> kw.f6_veh,
             f7 |-> kw.f7_veh, f8 |-> self.f8_dict["veh"], f9 |-> kw.f9_veh]
        f5_dict == [s1 |-> kw.f5_s1, e1 |-> kw.f5_e1]
        element_reuses_dict == [s1 |-> kw.num_reuses_s1, e1 |-> kw.num_reuses_e1]
        ops_cost_factors ==
            [f5_dict |-> f5_dict, f8 |-> self.f8_dict["ops"], f11 |-> kw.f11_ops,
             fv |-> self.fv, fc |-> self.fc, p |-> kw.p_ops]
        Returned(prod_cost, prod_cost_per_flight, stage1_avg_prod_cost_per_flight, stage2_avg_prod_cost_per_flight, ops_cost_per_flight, props_cost, refurb_cost, dev_cost) ==
            LET veh_int_checkout_per_flight ==
                    FSub(FSub(prod_cost_per_flight, stage1_avg_prod_cost_per_flight),
                         stage2_avg_prod_cost_per_flight)
                cost_per_flight == FAdd(prod_cost_per_flight, ops_cost_per_flight)
                frac_dev_cost == FMul(dev_cost, kw.frac_dev_paid)
                dev_cost_per_flight == PyDiv(frac_dev_cost, kw.num_program_flights)
                price_per_flight ==
                    FAdd(FMul(FAdd(prod_cost_per_flight, ops_cost_per_flight),
                              kw.profit_multiplier),
                         dev_cost_per_flight)
                results ==
                    <<prod_cost_per_flight, ops_cost_per_flight, cost_per_flight, dev_cost,
                      price_per_flight, stage1_avg_prod_cost_per_flight,
                      stage2_avg_prod_cost_per_flight, veh_int_checkout_per_flight,
                      props_cost, refurb_cost>>
            IN  IF IsRaise(prod_cost) \/ \E i \in 1..Len(results) : IsRaise(results[i])
                THEN <<Raise>>
                ELSE results
        Operations(prod_cost, prod_cost_per_flight, stage1_avg_prod_cost_per_flight, stage2_avg_prod_cost_per_flight, props_cost, refurb_cost) ==
            LET direct_ops_cost ==
                    CHOOSE cost \in
                        {FAdd(FAdd(FAdd(FAdd(FAdd(ground_ops, mission_ops), props_cost),
                                        kw.fees), kw.insurance), kw.recovery_cost) :
                            ground_ops \in
                                {preflight_ground_ops_cost(lv, kw.launch_rate,
                                     ops_cost_factors,
                                     ListItems(vehicle_launch_nums_list))},
                            mission_ops \in
                                {flight_mission_ops_cost(self.sum_QN, kw.launch_rate,
                                     ops_cost_factors,
                                     ListItems(vehicle_launch_nums_list))}} : TRUE
                indir_ops_cost == indirect_ops_cost(kw.launch_rate, self.launch_provider_type)
            IN  CHOOSE results \in
                    {Returned(prod_cost, prod_cost_per_flight,
                              stage1_avg_prod_cost_per_flight,
                              stage2_avg_prod_cost_per_flight, ops_cost_per_flight,
                              props_cost, refurb_cost, dev_cost) :
                        ops_cost_per_flight \in
                            {FAdd(FAdd(direct_ops_cost, indir_ops_cost), refurb_cost)},
                        dev_cost \in
                            {vehicle_development_cost(lv, veh_cost_factors, element_map)}} :
                    TRUE
    IN  CHOOSE results \in
            {Operations(prod_cost, prod_cost_per_flight, stage1_avg_prod_cost_per_flight,
                        stage2_avg_prod_cost_per_flight, props_cost, refurb_cost) :
                prod_cost \in
                    {average_vehicle_production_cost(lv, veh_cost_factors,
                         vehicle_prod_nums_list, element_map)},
                prod_cost_per_flight \in
                    {average_prod_cost_per_flight(lv, element_reuses_dict, element_map,
                         veh_cost_factors, vehicle_prod_nums_list)},
                stage1_avg_prod_cost_per_flight \in
                    {average_portion_prod_cost_per_flight(lv, element_reuses_dict,
                         element_map, veh_cost_factors, vehicle_prod_nums_list,
                         {"s1", "e1"})},
                stage2_avg_prod_cost_per_flight \in
                    {average_portion_prod_cost_per_flight(lv, element_reuses_dict,
                         element_map, veh_cost_factors, vehicle_prod_nums_list,
                         {"s2", "e2"})},
                props_cost \in {get_props_cost(vehicle_props_dict)},
                refurb_cost \in
                    {total_refurbishment_cost(lv, ops_cost_factors, element_map)}} :
            TRUE

-----------------------------------------------------------------------------
(* Strategy.evaluate as a state machine.  A call runs the four statements  *)
(* of evaluate one after another; calls made by different callers on the   *)
(* one Strategy object may interleave between statements.                  *)

MaxCalls == 2      \* evaluate calls started in one behaviour

Callers == {"A", "B"}

NoMasses == [key \in {"m0"} |-> I(0)]

IdleCall ==
    [pc |-> "idle", args |-> [idle |-> TRUE], perf |-> NoResult,
     masses |-> NoMasses, result |-> <<>>, exc |-> "none"]

\* the sampled parameters of a call and what fsolve makes of them
EvalArgs(kind) ==
    {[c_1 |-> I(3000), E_1 |-> E_1, E_2 |-> Fin(1, 20),
      a |-> IF kind = "Expendable" THEN I(0) ELSE Fin(1, 10),
      sol |-> sol, kwargs |-> [launch_rate |-> I(10)]] :
        E_1 \in {Fin(3, 50), Fin(1, 10)},
        sol \in IF kind = "Expendable"
                THEN {FsolveOut(1, <<Fin(1, 4), I(0)>>), FsolveOut(1, <<Fin(3, 10), I(0)>>),
                      FsolveOut(1, <<Fin(1, 10), I(0)>>), FsolveOut(2, <<Fin(1, 4), I(0)>>)}
                ELSE {FsolveOut(1, <<Fin(1, 8), Fin(1, 4)>>),
                      FsolveOut(1, <<Fin(1, 8), Fin(3, 10)>>),
                      FsolveOut(1, <<Fin(1, 8), Fin(1, 10)>>),
                      FsolveOut(2, <<Fin(1, 8), Fin(1, 4)>>)}}

EvalInit ==
    /\ strat \in StrategyKinds
    /\ veh = InitialVehicle(strat)
    /\ props = InitialProps(strat)
    /\ call = [c \in Callers |-> IdleCall]
    /\ ncalls = 0
    /\ h_in = Idle /\ h_out = Idle /\ s_in = Idle /\ s_out = Idle

Resting(c) == call[c].pc \in {"idle", "done", "raised"}

\* a caller calls evaluate with its sampled parameters
Begin(c) ==
    /\ Resting(c)
    /\ ncalls < MaxCalls
    /\ \E args \in EvalArgs(strat) :
          call' = [call EXCEPT ![c] = [IdleCall EXCEPT !.pc = "solve", !.args = args]]
    /\ ncalls' = ncalls + 1
    /\ UNCHANGED <<h_in, h_out, s_in, s_out, veh, props, strat>>

\* first statement: the performance solve
Solve(c) ==
    /\ call[c].pc = "solve"
    /\ call' = [call EXCEPT
          ![c].perf = IF strat = "Expendable"
                      THEN payload_fixed_stages(Strategy(strat).y, FALSE, call[c].args.sol)
                      ELSE propulsive_ls_perf(call[c].args.c_1, Strategy(strat).y,
                                              call[c].args.sol),
          ![c].pc = "get_masses"]
    /\ UNCHANGED <<h_in, h_out, s_in, s_out, veh, props, strat, ncalls>>

\* results.pi_star, results.e_1: a plain tuple has no such attributes
HasPerfAttributes(perf) == perf.shape \in {"scalar", "PerfResult"}

\* a variant that pushes the mass dictionary into the cost model before
\* the positivity assertion is tested
GetMasses_pushesfirst(c) ==
    /\ call[c].pc = "get_masses"
    /\ \E got \in {get_masses(Strategy(strat), call[c].perf.v[1], call[c].args.a,
                                call[c].args.E_1, call[c].args.E_2)} :
           IF ~HasPerfAttributes(call[c].perf)
           THEN /\ call' = [call EXCEPT ![c] =
                              [@ EXCEPT !.pc = "raised", !.exc = "AttributeError"]]
                /\ UNCHANGED <<veh, props>>
           ELSE \E upd \in {update_masses(veh, props, Strategy(strat).num_engines_dict,
                                          got.mass_dict)} :
                   /\ veh' = upd.lv
                   /\ props' = upd.vehicle_props_dict
                   /\ call' = [call EXCEPT ![c] =
                         IF got.raised
                         THEN [@ EXCEPT !.pc = "raised", !.exc = "AssertionError"]
                         ELSE [@ EXCEPT !.pc = "update_masses", !.masses = got.mass_dict]]
    /\ UNCHANGED <<h_in, h_out, s_in, s_out, strat, ncalls>>

\* second statement: self.get_masses(pi_star, ...)
GetMasses(c) ==
    /\ call[c].pc = "get_masses"
    /\ \E got \in {get_masses(Strategy(strat), call[c].perf.v[1], call[c].args.a,
                                call[c].args.E_1, call[c].args.E_2)} :
           call' = [call EXCEPT ![c] =
              IF ~HasPerfAttributes(call[c].perf)
              THEN [@ EXCEPT !.pc = "raised", !.exc = "AttributeError"]
              ELSE IF got.raised
              THEN [@ EXCEPT !.pc = "raised", !.exc = "AssertionError"]
              ELSE [@ EXCEPT !.pc = "update_masses", !.masses = got.mass_dict]]
    /\ UNCHANGED <<h_in, h_out, s_in, s_out, veh, props, strat, ncalls>>

\* third statement: self.cost_model.update_masses(element_masses)
UpdateMasses(c) ==
    /\ call[c].pc = "update_masses"
    /\ \E upd \in {update_masses(veh, props, Strategy(strat).num_engines_dict,
                                   call[c].masses)} :
           /\ veh' = upd.lv
           /\ props' = upd.vehicle_props_dict
           /\ call' = [call EXCEPT ![c] =
                 IF upd.raised THEN [@ EXCEPT !.pc = "raised", !.exc = "KeyError"]
                 ELSE [@ EXCEPT !.pc = "evaluate_cost"]]
    /\ UNCHANGED <<h_in, h_out, s_in, s_out, strat, ncalls>>

\* a variant that returns e_1 in front of pi_star
PerfPair_swapped(kind, cl) ==
    IF kind = "Expendable" THEN <<cl.args.E_1, cl.perf.v[1]>>
    ELSE <<cl.perf.v[3], cl.perf.v[1]>>

\* pi_star and e_1 as evaluate puts them in front of the cost results
PerfPair(kind, cl) ==
    IF kind = "Expendable" THEN <<cl.perf.v[1], cl.args.E_1>>
    ELSE <<cl.perf.v[1], cl.perf.v[3]>>

\* fourth statement and return: self.cost_model.evaluate_cost(**kwargs)
EvaluateCost(c) ==
    /\ call[c].pc = "evaluate_cost"
    /\ \E cost_results \in {evaluate_cost(Strategy(strat), veh, props,
                                            Kwargs(call[c].args.kwargs))} :
           call' = [call EXCEPT ![c] =
              IF cost_results = <<Raise>>
              THEN [@ EXCEPT !.pc = "raised", !.exc = "Exception"]
              ELSE [@ EXCEPT !.pc = "done",
                             !.result = PerfPair(strat, call[c]) \o cost_results]]
    /\ UNCHANGED <<h_in, h_out, s_in, s_out, veh, props, strat, ncalls>>

Next ==
    \E c \in Callers :
        \/ Begin(c)
        \/ Solve(c)
        \/ GetMasses(c)
        \/ UpdateMasses(c)
        \/ EvaluateCost(c)

Spec == EvalInit /\ [][Next]_vars

\* a caller that starts a call only when no other call is under way
BeginAlone(c) ==
    /\ \A d \in Callers \ {c} : Resting(d)
    /\ Begin(c)

SeqNext ==
    \E c \in Callers :
        \/ BeginAlone(c)
        \/ Solve(c)
        \/ GetMasses(c)
        \/ UpdateMasses(c)
        \/ EvaluateCost(c)

SeqSpec == EvalInit /\ [][SeqNext]_vars

-----------------------------------------------------------------------------
(* Claims about Strategy.evaluate                                          *)

\* the performance solve of a call came back with the not-a-number sentinel
SolveInfeasible(cl) ==
    /\ cl.pc \in {"get_masses", "update_masses", "evaluate_cost", "done", "raised"}
    /\ IsNaN(cl.perf.v[1])

\* C5: when the performance solve of an evaluate call is infeasible, the
\* call raises no exception and returns a tuple led by not-a-number.
C5_InfeasibleReturnsSentinel ==
    \A c \in Callers :
        SolveInfeasible(call[c]) =>
            /\ call[c].pc # "raised"
            /\ call[c].pc = "done" => IsNaN(call[c].result[1])

\* an infeasible solve has ended the call with an exception
C5_Witness_Raised ==
    \E c \in Callers :
        /\ SolveInfeasible(call[c])
        /\ call[c].pc = "raised"
        /\ call[c].exc \in {"AssertionError", "AttributeError"}

\* the vehicle and the propellant dictionary that carry exactly the masses
\* of one mass dictionary
VehicleWith(kind, masses) ==
    [InitialVehicle(kind) EXCEPT
        !.M0 = PyDiv(masses["m0"], I(1000)),
        !.element_list =
            [i \in 1..Len(InitialVehicle(kind).element_list) |->
                [InitialVehicle(kind).element_list[i] EXCEPT
                    !.m = masses[InitialVehicle(kind).element_list[i].name]]]]

PropsWith(kind, masses) == [prop \in DOMAIN InitialProps(kind) |-> masses[prop]]

\* the costs evaluate_cost computes from one mass dictionary
CostsFromMasses(kind, masses, kwargs) ==
    evaluate_cost(Strategy(kind), VehicleWith(kind, masses), PropsWith(kind, masses),
                  Kwargs(kwargs))

\* the cost results inside the tuple evaluate returns
CostPart(result) == SubSeq(result, 3, Len(result))

\* the shared vehicle state is not what this call's update_masses wrote
Overwritten(cl) ==
    \/ veh # VehicleWith(strat, cl.masses)
    \/ props # PropsWith(strat, cl.masses)

\* C9: when another call's update_masses has run between this call's
\* update_masses and its evaluate_cost, this call returns the costs computed
\* from the other call's masses.
C9_InterleavedCosts ==
    [][\A c \in Callers : \A d \in Callers \ {c} :
          (/\ call[c].pc = "evaluate_cost"
           /\ call'[c].pc = "done"
           /\ call[d].pc \in {"evaluate_cost", "done"}
           /\ Overwritten(call[c]))
          => CostPart(call'[c].result) =
                CostsFromMasses(strat, call[d].masses, call[c].args.kwargs)]_vars

\* a call has returned the costs of the other call's masses, and they are
\* not the costs of its own
C9_Witness ==
    \E c \in Callers : \E d \in Callers \ {c} :
        /\ call[c].pc = "done"
        /\ call[d].pc \in {"evaluate_cost", "done"}
        /\ call[c].masses # call[d].masses
        /\ CostPart(call[c].result) =
              CostsFromMasses(strat, call[d].masses, call[c].args.kwargs)
        /\ CostPart(call[c].result) #
              CostsFromMasses(strat, call[c].masses, call[c].args.kwargs)

\* what evaluate returns for given arguments on a Strategy nobody else uses
EvaluateAlone(kind, args) ==
    LET perf == IF kind = "Expendable"
                THEN payload_fixed_stages(Strategy(kind).y, FALSE, args.sol)
                ELSE propulsive_ls_perf(args.c_1, Strategy(kind).y, args.sol)
        masses == get_masses(Strategy(kind), perf.v[1], args.a, args.E_1,
                             args.E_2).mass_dict
    IN  <<perf.v[1], IF kind = "Expendable" THEN args.E_1 ELSE perf.v[3]>>
            \o CostsFromMasses(kind, masses, args.kwargs)

\* C10: when calls do not overlap, every field evaluate_cost reads (M0, the
\* element masses, the propellant masses) holds what update_masses wrote in
\* the same call, and the returned tuple depends on the call's arguments only.
C10_SequentialDependsOnArgs ==
    \A c \in Callers :
        /\ call[c].pc = "evaluate_cost" =>
              /\ veh.M0 = PyDiv(call[c].masses["m0"], I(1000))
              /\ \A i \in 1..Len(veh.element_list) :
                    veh.element_list[i].m = call[c].masses[veh.element_list[i].name]
              /\ \A prop \in DOMAIN props : props[prop] = call[c].masses[prop]
        /\ call[c].pc = "done" => call[c].result = EvaluateAlone(strat, call[c].args)

\* a call has returned after an earlier call with other masses had returned
C10_Witness ==
    \E c \in Callers : \E d \in Callers \ {c} :
        /\ call[c].pc = "done"
        /\ call[d].pc = "done"
        /\ call[c].masses # call[d].masses
        /\ call[c].result # call[d].result

\* two element lists that differ at most in the mass fields m
SameButMasses(before, after) ==
    /\ Len(after) = Len(before)
    /\ \A i \in 1..Len(before) : [after[i] EXCEPT !.m = before[i].m] = before[i]

\* a call's update_masses statement is the step being taken
UpdateMassesStep ==
    \E c \in Callers :
        /\ call[c].pc = "update_masses"
        /\ call'[c].pc \in {"evaluate_cost", "raised"}

\* C11 as stated: no step of an evaluate call changes anything of the
\* Strategy or of its cost model except the mass fields of the elements.
C11_OnlyElementMasses ==
    [][/\ strat' = strat
       /\ props' = props
       /\ [veh' EXCEPT !.element_list = veh.element_list] = veh
       /\ SameButMasses(veh.element_list, veh'.element_list)]_vars

\* C11, amended: the Strategy never changes, and the cost model changes only
\* in the update_masses statement, which writes the element mass fields, the
\* vehicle's take-off mass M0 and the values of the propellant dictionary.
C11_OnlyUpdateMassesWrites ==
    [][/\ strat' = strat
       /\ DOMAIN props' = DOMAIN props
       /\ [veh' EXCEPT !.element_list = veh.element_list, !.M0 = veh.M0] = veh
       /\ SameButMasses(veh.element_list, veh'.element_list)
       /\ (veh' # veh \/ props' # props) => UpdateMassesStep]_vars

\* a call's update_masses has left a take-off mass, element masses and
\* propellant masses that the constructed cost model did not have
C11_Witness ==
    /\ \E c \in Callers : call[c].pc = "evaluate_cost"
    /\ veh.M0 # InitialVehicle(strat).M0
    /\ props # InitialProps(strat)
    /\ \E i \in 1..Len(veh.element_list) :
          veh.element_list[i].m # InitialVehicle(strat).element_list[i].m

\* the statements of an evaluate call that come before update_masses
BeforeUpdateMasses == {"solve", "get_masses"}

\* C28: a call that fails before its cost step, by the positivity assertion
\* of get_masses or by a solver result that cannot be used, has not run
\* update_masses: no step of the call up to and including the failure
\* changes LaunchVehicle.M0, an element mass or a propellant mass, which so
\* keep the values of the last call that reached update_masses.
C28_FailedCallLeavesMasses ==
    [][\A c \in Callers :
          (call[c].pc \in BeforeUpdateMasses /\ call'[c] # call[c]) =>
              /\ veh' = veh
              /\ props' = props
              /\ call'[c].pc \in {"get_masses", "update_masses", "raised"}
              /\ call'[c].pc = "raised" =>
                     call'[c].exc \in {"AssertionError", "AttributeError"}]_vars

\* a call has failed before update_masses while the cost model holds the
\* masses an earlier call wrote
C28_Witness ==
    \E c \in Callers : \E d \in Callers \ {c} :
        /\ call[c].pc = "raised"
        /\ call[c].exc \in {"AssertionError", "AttributeError"}
        /\ call[d].pc = "done"
        /\ veh = VehicleWith(strat, call[d].masses)
        /\ props = PropsWith(strat, call[d].masses)
        /\ veh # InitialVehicle(strat)

-----------------------------------------------------------------------------
(* Mass harness: get_masses applied to drawn arguments                     *)

MassVariants == {"Strategy", "ParachutePartial"}

\* payload fractions: not-a-number, zero, negative, feasible, and above one
MassPiStars == {NaN, I(0), Fin(-1, 10), Fin(1, 100), Fin(1, 10), Fin(1, 4), I(1), I(2)}

MassInit ==
    /\ \E variant \in MassVariants, pi_star \in MassPiStars, a \in {I(0), Fin(1, 10)},
          E_1 \in {Fin(3, 50), Fin(1, 10), I(1)}, E_2 \in {I(0), Fin(1, 20), I(1)},
          z_m \in {Fin(1, 5), Fin(1, 2)} :
          /\ variant = "Strategy" => z_m = Fin(1, 5)
          /\ h_in = [variant |-> variant, pi_star |-> pi_star, a |-> a,
                     E_1 |-> E_1, E_2 |-> E_2, z_m |-> z_m]
    /\ h_out = Idle
    /\ s_in = Idle /\ s_out = Idle
    /\ veh = Idle /\ props = Idle /\ strat = Idle /\ call = Idle /\ ncalls = 0

CallGetMasses ==
    /\ h_in.variant = "Strategy"
    /\ h_out = Idle
    /\ h_out' = get_masses(Strategy("Expendable"), h_in.pi_star, h_in.a, h_in.E_1, h_in.E_2)
    /\ UNCHANGED <<h_in, s_in, s_out, veh, props, strat, call, ncalls>>

CallPartialGetMasses ==
    /\ h_in.variant = "ParachutePartial"
    /\ h_out = Idle
    /\ h_out' = ParachutePartial_get_masses(Strategy("Expendable"), h_in.z_m, h_in.pi_star,
                                            h_in.a, h_in.E_1, h_in.E_2)
    /\ UNCHANGED <<h_in, s_in, s_out, veh, props, strat, call, ncalls>>

MassNext ==
    \/ CallGetMasses
    \/ CallPartialGetMasses

MassSpec == MassInit /\ [][MassNext]_vars

\* a mass Python's "> 0" accepts: a number, or +inf, above zero
StrictlyPositive(m) == ~IsNaN(m) /\ ~IsRaise(m) /\ ~IsNone(m) /\ Sgn(m) > 0

C12_Witness_Asserted ==
    /\ h_out # Idle
    /\ h_out.raised
    /\ StrictlyPositive(h_out.mass_dict["m0"])
    /\ \E key \in DOMAIN h_out.mass_dict :
          ~IsNaN(h_out.mass_dict[key]) /\ ~IsRaise(h_out.mass_dict[key])
              /\ Sgn(h_out.mass_dict[key]) <= 0

-----------------------------------------------------------------------------
(* Vehicle harness: the vehicle-level cost functions applied to element    *)
(* maps that may lack entries                                              *)

NotCalled == [called |-> FALSE, value |-> I(0)]
Called(value) == [called |-> TRUE, value |-> value]

\* an element_map with the given keys only
PartialElementMap(keys, n_e1) ==
    [name \in keys |-> HarnessElementMap(n_e1, Fin(1, 2))[name]]

VehicleInit ==
    /\ \E keys \in SUBSET ElementNames, n_e1 \in 1..MaxUnits,
          f0_dev \in {I(1), Fin(3, 2)}, f6 \in {I(1), I(2)}, f7 \in {I(1), Fin(1, 2)} :
          h_in = [element_map |-> PartialElementMap(keys, n_e1),
                  vehicle_cost_factors |->
                      [HarnessVehicleFactors EXCEPT !.f0_dev = f0_dev, !.f6 = f6, !.f7 = f7],
                  element_reuses_dict |-> ReusesDict(4, 0),
                  vehicle_prod_nums_list |-> ProdNumsList(1, MaxProdNum)]
    /\ h_out = [dev |-> NotCalled, prod |-> NotCalled, per_flight |-> NotCalled]
    /\ s_in = Idle /\ s_out = Idle
    /\ veh = Idle /\ props = Idle /\ strat = Idle /\ call = Idle /\ ncalls = 0

CallVehicleDevelopmentCost ==
    /\ ~h_out.dev.called
    /\ h_out' = [h_out EXCEPT !.dev =
          Called(vehicle_development_cost(HarnessVehicle, h_in.vehicle_cost_factors,
                                          h_in.element_map))]
    /\ UNCHANGED <<h_in, s_in, s_out, veh, props, strat, call, ncalls>>

CallVehicleProductionCost ==
    /\ ~h_out.prod.called
    /\ h_out' = [h_out EXCEPT !.prod =
          Called(average_vehicle_production_cost(HarnessVehicle, h_in.vehicle_cost_factors,
                     h_in.vehicle_prod_nums_list, h_in.element_map))]
    /\ UNCHANGED <<h_in, s_in, s_out, veh, props, strat, call, ncalls>>

CallVehicleProdCostPerFlight ==
    /\ ~h_out.per_flight.called
    /\ h_out' = [h_out EXCEPT !.per_flight =
          Called(average_prod_cost_per_flight(HarnessVehicle, h_in.element_reuses_dict,
                     h_in.element_map, h_in.vehicle_cost_factors,
                     h_in.vehicle_prod_nums_list))]
    /\ UNCHANGED <<h_in, s_in, s_out, veh, props, strat, call, ncalls>>

VehicleNext ==
    \/ CallVehicleDevelopmentCost
    \/ CallVehicleProductionCost
    \/ CallVehicleProdCostPerFlight

VehicleSpec == VehicleInit /\ [][VehicleNext]_vars

\* some element of the vehicle has no entry in the element_map passed in
EntryMissing ==
    \E i \in 1..Len(HarnessVehicle.element_list) :
        HarnessVehicle.element_list[i].name \notin DOMAIN h_in.element_map

\* C13: when an element of the vehicle has no entry in element_map, each of
\* vehicle_development_cost, average_vehicle_production_cost and
\* average_prod_cost_per_flight fails with a KeyError; none returns a cost.
C13_MissingEntryKeyError ==
    EntryMissing =>
        /\ h_out.dev.called => h_out.dev.value = KeyError
        /\ h_out.prod.called => h_out.prod.value = KeyError
        /\ h_out.per_flight.called => h_out.per_flight.value = KeyError

\* the three functions have been called with a map that has the entries of
\* the first elements of the list but lacks a later one
C13_Witness ==
    /\ DOMAIN h_in.element_map = {"s2", "e2", "e1"}
    /\ h_out.dev.called /\ h_out.prod.called /\ h_out.per_flight.called
    /\ h_out.dev.value = KeyError
    /\ h_out.prod.value = KeyError
    /\ h_out.per_flight.value = KeyError

\* the development cost of each element of a set of list positions, once
RECURSIVE DevCostOfEach(_)
DevCostOfEach(positions) ==
    IF positions = {} THEN I(0)
    ELSE LET i == CHOOSE x \in positions : TRUE
             element == HarnessVehicle.element_list[i]
         IN  FAdd(DevCostOfEach(positions \ {i}),
                  element_development_cost(element, h_in.element_map[element.name].CER_vals,
                                           h_in.element_map[element.name].cf))

\* the element_map with every unit count replaced by n
WithUnitCount(element_map, n) ==
    [name \in DOMAIN element_map |-> [element_map[name] EXCEPT !.n = n]]

\* C14: vehicle_development_cost is f0_dev * f6 * f7 times the sum of the
\* development costs of the vehicle's elements, each counted once, and no
\* unit count in element_map changes it.
C14_DevCostOncePerElement ==
    (h_out.dev.called /\ ~EntryMissing) =>
        /\ h_out.dev.value =
              FMul(FMul(FMul(h_in.vehicle_cost_factors.f0_dev,
                             h_in.vehicle_cost_factors.f6),
                        h_in.vehicle_cost_factors.f7),
                   DevCostOfEach(1..Len(HarnessVehicle.element_list)))
        /\ \A n \in 1..(MaxUnits + 1) :
              vehicle_development_cost(HarnessVehicle, h_in.vehicle_cost_factors,
                                       WithUnitCount(h_in.element_map, n)) = h_out.dev.value

\* the development cost has been computed for a vehicle with more than one
\* unit of an element and with vehicle factors that are not all 1
C14_Witness ==
    /\ h_out.dev.called /\ ~EntryMissing
    /\ h_in.element_map["e1"].n > 1
    /\ h_in.vehicle_cost_factors.f0_dev # I(1)
    /\ h_in.vehicle_cost_factors.f6 # I(1)
    /\ h_in.vehicle_cost_factors.f7 # I(1)
    /\ IsFin(h_out.dev.value) /\ h_out.dev.value # I(0)

\* the statements of evaluate in the order of the source, then the return
StatementOrder ==
    {<<"solve", "get_masses">>, <<"get_masses", "update_masses">>,
     <<"update_masses", "evaluate_cost">>, <<"evaluate_cost", "done">>}

\* a call moves from one statement to the next, or an exception ends it
InOrder(before, after) ==
    \/ <<before, after>> \in StatementOrder
    \/ before \in {"solve", "get_masses", "update_masses", "evaluate_cost"} /\ after = "raised"
    \/ before \in {"idle", "done", "raised"} /\ after = "solve"

\* the twelve scalars of a returned tuple, in the order of the return
\* statements of evaluate and of evaluate_cost
TwelveInOrder(kind, cl) ==
    LET lv == VehicleWith(kind, cl.masses)
        vehicle_props_dict == PropsWith(kind, cl.masses)
        r == cl.result
    IN  \E costs \in {CostsFromMasses(kind, cl.masses, cl.args.kwargs)} :
        /\ Len(r) = 12
        /\ \A i \in 1..12 : ~IsRaise(r[i]) /\ ~IsNone(r[i])
        /\ r[1] = cl.perf.v[1]
        /\ r[2] = (IF kind = "Expendable" THEN cl.args.E_1 ELSE cl.perf.v[3])
        /\ r[3] = costs[1]
        /\ r[5] = FAdd(r[3], r[4])
        /\ r[6] = costs[4]
        /\ r[8] = costs[6] /\ r[9] = costs[7] /\ r[12] = costs[10]
        /\ r[7] = FAdd(FMul(FAdd(r[3], r[4]), Kwargs(cl.args.kwargs).profit_multiplier),
                       PyDiv(FMul(r[6], Kwargs(cl.args.kwargs).frac_dev_paid),
                             Kwargs(cl.args.kwargs).num_program_flights))
        /\ r[10] = FSub(FSub(r[3], r[8]), r[9])
        /\ r[11] = get_props_cost(vehicle_props_dict)
        /\ r[4] = FAdd(FAdd(FAdd(FAdd(
                      preflight_ground_ops_cost(lv, Kwargs(cl.args.kwargs).launch_rate,
                          [f5_dict |-> [s1 |-> I(0), e1 |-> I(0)], f8 |-> I(1), f11 |-> I(1),
                           fv |-> Strategy(kind).fv, fc |-> Strategy(kind).fc, p |-> I(1)],
                          ListItems(vehicle_launch_nums_list)),
                      flight_mission_ops_cost(Strategy(kind).sum_QN,
                          Kwargs(cl.args.kwargs).launch_rate,
                          [f5_dict |-> [s1 |-> I(0), e1 |-> I(0)], f8 |-> I(1), f11 |-> I(1),
                           fv |-> Strategy(kind).fv, fc |-> Strategy(kind).fc, p |-> I(1)],
                          ListItems(vehicle_launch_nums_list))),
                      r[11]),
                      indirect_ops_cost(Kwargs(cl.args.kwargs).launch_rate,
                                        Strategy(kind).launch_provider_type)),
                      r[12])

-----------------------------------------------------------------------------
(* Element harness: the cost functions of one element of any class, and    *)
(* the learning factor, applied to drawn arguments                         *)

MaxSerial == 4     \* largest element production number drawn

\* the element under study: one class, a reference mass
HarnessElement(cls) == [name |-> "x", m |-> I(3), cls |-> cls]

ElementCER == [dev_a |-> I(2), dev_x |-> 1, prod_a |-> I(5), prod_x |-> 1]

ElementInit ==
    /\ \E cls \in ElementClasses, f2 \in {I(1), I(2)}, f10 \in {I(1), Fin(1, 2)},
          f11 \in {I(1), I(3)}, p \in {I(1), Fin(1, 2), Fin(1, 4)},
          first \in 1..MaxSerial, last \in 1..MaxSerial :
          /\ first <= last
          /\ cls \notin {"VTOStageFlybackVehicle", "ModernTurboFed", "StorablePressureFed",
                          "CrewedBallisticReentryCapsule"}
                => (first = 1 /\ last = 2 /\ p = Fin(1, 2))
          /\ h_in = [element |-> HarnessElement(cls),
                     CER_vals |-> ElementCER,
                     element_cost_factors |->
                         [f1 |-> Fin(3, 2), f2 |-> f2, f3 |-> Fin(5, 4), f8 |-> Fin(7, 8),
                          f10 |-> f10, f11 |-> f11, p |-> p],
                     element_prod_nums_list |-> Range(first, last + 1)]
    /\ h_out = [dev |-> NotCalled, prod |-> NotCalled, f4_avg |-> NotCalled]
    /\ s_in = Idle /\ s_out = Idle
    /\ veh = Idle /\ props = Idle /\ strat = Idle /\ call = Idle /\ ncalls = 0

CallElementDevelopmentCost ==
    /\ ~h_out.dev.called
    /\ h_out' = [h_out EXCEPT !.dev =
          Called(element_development_cost(h_in.element, h_in.CER_vals,
                                          h_in.element_cost_factors))]
    /\ UNCHANGED <<h_in, s_in, s_out, veh, props, strat, call, ncalls>>

CallAverageElementProductionCost ==
    /\ ~h_out.prod.called
    /\ h_out' = [h_out EXCEPT !.prod =
          Called(average_element_production_cost(h_in.element, h_in.CER_vals,
                     h_in.element_cost_factors, h_in.element_prod_nums_list))]
    /\ UNCHANGED <<h_in, s_in, s_out, veh, props, strat, call, ncalls>>

CallCostReductionFactor ==
    /\ ~h_out.f4_avg.called
    /\ h_out' = [h_out EXCEPT !.f4_avg =
          Called(cost_reduction_factor(h_in.element_cost_factors.p,
                                       h_in.element_prod_nums_list))]
    /\ UNCHANGED <<h_in, s_in, s_out, veh, props, strat, call, ncalls>>

ElementNext ==
    \/ CallElementDevelopmentCost
    \/ CallAverageElementProductionCost
    \/ CallCostReductionFactor

ElementSpec == ElementInit /\ [][ElementNext]_vars

\* the product of a sequence of numbers
RECURSIVE ProductOf(_)
ProductOf(factors) ==
    IF factors = <<>> THEN I(1)
    ELSE FMul(ProductOf(SubSeq(factors, 1, Len(factors) - 1)), factors[Len(factors)])

\* dev_a * m**dev_x of the call under study
DevLaw == FMul(h_in.CER_vals.dev_a, MassPow(h_in.element.m, h_in.CER_vals.dev_x))

\* the development cost does not change when the named factor does
DevCostIgnores(factor) ==
    \A v \in {I(1), I(2), Fin(1, 2), I(3)} :
        element_development_cost(h_in.element, h_in.CER_vals,
            [h_in.element_cost_factors EXCEPT ![factor] = v]) = h_out.dev.value

\* C16 as stated: the development cost of the winged fly-back vehicle and
\* of both crewed archetypes does not depend on f2.
C16_CrewedAndFlybackIgnoreF2 ==
    (h_out.dev.called /\ h_in.element.cls \in
        {"VTOStageFlybackVehicle", "CrewedSpaceSystem", "CrewedBallisticReentryCapsule"})
    => DevCostIgnores("f2")

\* C16, amended: the development cost of VTOStageFlybackVehicle and of
\* CrewedSpaceSystem is f1*f3*f8*f10*f11*dev_a*m**dev_x and does not depend
\* on f2; CrewedBallisticReentryCapsule is a ComplexElement and its
\* development cost carries f2.
C16_OnlyTwoClassesIgnoreF2 ==
    h_out.dev.called =>
        /\ h_in.element.cls \in {"VTOStageFlybackVehicle", "CrewedSpaceSystem"} =>
              /\ DevCostIgnores("f2")
              /\ h_out.dev.value =
                    ProductOf(<<h_in.element_cost_factors.f1, h_in.element_cost_factors.f3,
                                h_in.element_cost_factors.f8, h_in.element_cost_factors.f10,
                                h_in.element_cost_factors.f11, DevLaw>>)
        /\ h_in.element.cls = "CrewedBallisticReentryCapsule" =>
              h_out.dev.value =
                    ProductOf(<<h_in.element_cost_factors.f1, h_in.element_cost_factors.f2,
                                h_in.element_cost_factors.f3, h_in.element_cost_factors.f8,
                                h_in.element_cost_factors.f10, h_in.element_cost_factors.f11,
                                DevLaw>>)

\* the development cost of a fly-back vehicle has been computed with f2 = 2
C16_Witness ==
    /\ h_out.dev.called
    /\ h_in.element.cls = "VTOStageFlybackVehicle"
    /\ h_in.element_cost_factors.f2 = I(2)
    /\ h_in.element_cost_factors.f10 # I(1)
    /\ IsFin(h_out.dev.value) /\ h_out.dev.value # I(0)

\* the development cost of a crewed capsule has been computed with f2 = 2
C16_Witness_Capsule ==
    /\ h_out.dev.called
    /\ h_in.element.cls = "CrewedBallisticReentryCapsule"
    /\ h_in.element_cost_factors.f2 = I(2)
    /\ ~DevCostIgnores("f2")

\* C17: for the classes that inherit the base method and for the turbo-fed
\* engines the development cost is f1*f2*f3*f8*dev_a*m**dev_x and does not
\* depend on f10 or f11; for every ComplexElement class it is that product
\* times f10*f11.
C17_DevCostFactors ==
    h_out.dev.called =>
        /\ h_in.element.cls \in BaseClasses \cup TurboFedClasses =>
              /\ h_out.dev.value =
                    ProductOf(<<h_in.element_cost_factors.f1, h_in.element_cost_factors.f2,
                                h_in.element_cost_factors.f3, h_in.element_cost_factors.f8,
                                DevLaw>>)
              /\ DevCostIgnores("f10")
              /\ DevCostIgnores("f11")
        /\ h_in.element.cls \in ComplexClasses =>
              h_out.dev.value =
                    ProductOf(<<h_in.element_cost_factors.f1, h_in.element_cost_factors.f2,
                                h_in.element_cost_factors.f3, h_in.element_cost_factors.f8,
                                DevLaw, h_in.element_cost_factors.f10,
                                h_in.element_cost_factors.f11>>)

\* a turbo-fed engine's development cost has been computed with f10 and f11
\* that are not 1
C17_Witness ==
    /\ h_out.dev.called
    /\ h_in.element.cls = "StorableTurboFed"
    /\ h_in.element_cost_factors.f10 # I(1)
    /\ h_in.element_cost_factors.f11 # I(1)
    /\ IsFin(h_out.dev.value) /\ h_out.dev.value # I(0)

\* a tank's development cost has been computed with f10 and f11 not 1
C17_Witness_Complex ==
    /\ h_out.dev.called
    /\ h_in.element.cls = "ExpendableTank"
    /\ h_in.element_cost_factors.f10 # I(1)
    /\ h_in.element_cost_factors.f11 # I(1)
    /\ ~DevCostIgnores("f10")

\* prod_a * m**prod_x * f4_avg of the call under study
ProdLaw ==
    FMul(FMul(h_in.CER_vals.prod_a, MassPow(h_in.element.m, h_in.CER_vals.prod_x)),
         cost_reduction_factor(h_in.element_cost_factors.p, h_in.element_prod_nums_list))

\* the average production cost does not change when f10 does
ProdCostIgnoresF10 ==
    \A v \in {I(1), I(2), Fin(1, 2), I(3)} :
        average_element_production_cost(h_in.element, h_in.CER_vals,
            [h_in.element_cost_factors EXCEPT !.f10 = v],
            h_in.element_prod_nums_list) = h_out.prod.value

\* C18 as stated: the average production cost of the modern engines and of
\* the pressure-fed engines does not depend on f10.
C18_ModernAndPressureFedIgnoreF10 ==
    (h_out.prod.called /\ h_in.element.cls \in
        {"ModernPressureFed", "ModernTurboFed", "StorablePressureFed"})
    => ProdCostIgnoresF10

\* C18, amended: the average production cost of ModernPressureFed and of
\* ModernTurboFed is the learning-weighted power law times f8*f11 and does
\* not depend on f10; every other class, StorablePressureFed among them,
\* multiplies by f8*f10*f11.
C18_OnlyModernIgnoreF10 ==
    h_out.prod.called =>
        /\ h_in.element.cls \in {"ModernPressureFed", "ModernTurboFed"} =>
              /\ ProdCostIgnoresF10
              /\ h_out.prod.value =
                    ProductOf(<<ProdLaw, h_in.element_cost_factors.f8,
                                h_in.element_cost_factors.f11>>)
        /\ h_in.element.cls \notin {"ModernPressureFed", "ModernTurboFed"} =>
              h_out.prod.value =
                    ProductOf(<<ProdLaw, h_in.element_cost_factors.f8,
                                h_in.element_cost_factors.f10,
                                h_in.element_cost_factors.f11>>)

\* a modern engine's production cost has been computed with f10 not 1
C18_Witness ==
    /\ h_out.prod.called
    /\ h_in.element.cls = "ModernTurboFed"
    /\ h_in.element_cost_factors.f10 # I(1)
    /\ h_in.element_cost_factors.p # I(1)
    /\ IsFin(h_out.prod.value) /\ h_out.prod.value # I(0)

\* the storable pressure-fed engine's production cost moves with f10
C18_Witness_Storable ==
    /\ h_out.prod.called
    /\ h_in.element.cls = "StorablePressureFed"
    /\ ~ProdCostIgnoresF10

\* the list under study with the next serial appended
NextSerialAppended ==
    h_in.element_prod_nums_list \cup
        {1 + CHOOSE i \in h_in.element_prod_nums_list :
                \A j \in h_in.element_prod_nums_list : j <= i}

\* C19: for 0 < p < 1 and a list of consecutive serials s..k with s >= 1,
\* cost_reduction_factor of the list with k+1 appended is strictly smaller
\* than cost_reduction_factor of the list.
C19_StrictlyDecreasing ==
    (h_out.f4_avg.called /\ FLt(h_in.element_cost_factors.p, I(1))) =>
        FLt(cost_reduction_factor(h_in.element_cost_factors.p, NextSerialAppended),
            h_out.f4_avg.value)

\* the factor has been computed for p < 1 on a list of several serials that
\* does not start at 1
C19_Witness ==
    /\ h_out.f4_avg.called
    /\ h_in.element_cost_factors.p = Fin(1, 4)
    /\ h_in.element_prod_nums_list = 2..MaxSerial
    /\ FLt(h_out.f4_avg.value, I(1))

\* C20: cost_reduction_factor is exactly 1 when p = 1, whatever the list,
\* and when the list is [1], whatever p < 1.
C20_NoLearningIsOne ==
    h_out.f4_avg.called =>
        /\ h_in.element_cost_factors.p = I(1) => h_out.f4_avg.value = I(1)
        /\ h_in.element_prod_nums_list = {1} => h_out.f4_avg.value = I(1)

\* the factor has been computed for p = 1 on a list of several serials not
\* starting at 1
C20_Witness ==
    /\ h_out.f4_avg.called
    /\ h_in.element_cost_factors.p = I(1)
    /\ h_in.element_prod_nums_list = 2..MaxSerial
    /\ h_out.f4_avg.value = I(1)

\* the factor has been computed for p < 1 on the list [1]
C20_Witness_FirstUnit ==
    /\ h_out.f4_avg.called
    /\ h_in.element_cost_factors.p = Fin(1, 4)
    /\ h_in.element_prod_nums_list = {1}
    /\ h_out.f4_avg.value = I(1)

-----------------------------------------------------------------------------
(* Performance: unavail_mass                                               *)

\* The propulsion exponents P the model draws are natural logarithms of
\* rationals, so that np.exp(P) is rational: LnOf(q) is the number ln(q),
\* which is >= 0 exactly when q >= 1 and grows with q.
LnOf(q) == [ln |-> q]

np_exp(P) == P.ln

\* a variant that leaves out the recovery propellant term
unavail_mass_nopropellant(H, P, z_m, E_1) ==
    CHOOSE epsilon_1_prime \in
        {NpDiv(FAdd(I(1), chi_r),
               FAdd(FAdd(I(1), chi_r), PyDiv(FSub(I(1), E_1), E_1))) :
            chi_r \in {PyDiv(FMul(H, z_m), FSub(I(1), H))}} : TRUE

\* a variant whose hardware term shrinks as H grows
unavail_mass_hardwareshrinks(H, P, z_m, E_1) ==
    CHOOSE epsilon_1_prime \in
        {NpDiv(FAdd(FAdd(I(1), chi_r),
                    FMul(PyDiv(z_m, FSub(I(1), H)), FSub(np_exp(P), I(1)))),
               FAdd(FAdd(I(1), chi_r), PyDiv(FSub(I(1), E_1), E_1))) :
            chi_r \in {FMul(FMul(H, z_m), FSub(I(1), H))}} : TRUE

\* unavail_mass(H, P, z_m, E_1); the first parameter is the one callers
\* pass their a in
unavail_mass(H, P, z_m, E_1) ==
    CHOOSE epsilon_1_prime \in
        {NpDiv(FAdd(FAdd(I(1), chi_r),
                    FMul(PyDiv(z_m, FSub(I(1), H)), FSub(np_exp(P), I(1)))),
               FAdd(FAdd(I(1), chi_r), PyDiv(FSub(I(1), E_1), E_1))) :
            chi_r \in {PyDiv(FMul(H, z_m), FSub(I(1), H))}} : TRUE

\* Binary floating point.  The program computes in binary64, which rounds
\* the result of every operation to the nearest number of 53 significant
\* bits, ties to the even one; the model rounds the same way to Precision
\* significant bits.
Precision == 8

\* 2^e <= n/d, for positive n and d
Pow2AtMost(e, n, d) ==
    IF e >= 0 THEN 2 ^ e <= n \div d
    ELSE (d + 2 ^ (-e) - 1) \div 2 ^ (-e) <= n

\* the exponent e of a positive n/d: 2^e <= n/d < 2^(e+1)
BinaryExponent(n, d) ==
    CHOOSE e \in (-2 * Precision)..(2 * Precision) :
        Pow2AtMost(e, n, d) /\ ~Pow2AtMost(e + 1, n, d)

\* num/den rounded to the nearest integer, ties to even
NearestEven(num, den) ==
    CHOOSE m \in {num \div den, num \div den + 1} :
        \/ 2 * Abs(m * den - num) < den
        \/ 2 * Abs(m * den - num) = den /\ m % 2 = 0

\* the positive n/d rounded to Precision significant bits
RoundToPrecision(n, d) ==
    CHOOSE r \in
        {IF Precision - 1 - e >= 0
         THEN Fin(NearestEven(n * 2 ^ (Precision - 1 - e), d), 2 ^ (Precision - 1 - e))
         ELSE I(NearestEven(n, d * 2 ^ (e - Precision + 1)) * 2 ^ (e - Precision + 1)) :
            e \in {BinaryExponent(n, d)}} : TRUE

\* the result of one floating-point operation: finite rationals are
\* rounded, every other value is kept
Fl(x) ==
    IF ~IsRat(x) \/ x.n = 0 THEN x
    ELSE IF x.n > 0 THEN RoundToPrecision(x.n, x.d)
    ELSE FNeg(RoundToPrecision(-x.n, x.d))

\* a variant of the rounded evaluation with one more in the denominator
unavail_mass_binary_offset(H, P, z_m, E_1) ==
    CHOOSE epsilon_1_prime \in
        {Fl(NpDiv(Fl(FAdd(Fl(FAdd(I(1), chi_r)),
                          Fl(FMul(Fl(PyDiv(z_m, Fl(FSub(I(1), H)))),
                                  Fl(FSub(np_exp(P), I(1))))))),
                  Fl(FAdd(Fl(FAdd(I(2), chi_r)),
                          Fl(PyDiv(Fl(FSub(I(1), E_1)), E_1)))))) :
            chi_r \in {Fl(PyDiv(Fl(FMul(H, z_m)), Fl(FSub(I(1), H))))}} : TRUE

\* unavail_mass as floating point evaluates it: the same expression with
\* the result of every operation rounded
unavail_mass_binary(H, P, z_m, E_1) ==
    CHOOSE epsilon_1_prime \in
        {Fl(NpDiv(Fl(FAdd(Fl(FAdd(I(1), chi_r)),
                          Fl(FMul(Fl(PyDiv(z_m, Fl(FSub(I(1), H)))),
                                  Fl(FSub(np_exp(P), I(1))))))),
                  Fl(FAdd(Fl(FAdd(I(1), chi_r)),
                          Fl(PyDiv(Fl(FSub(I(1), E_1)), E_1)))))) :
            chi_r \in {Fl(PyDiv(Fl(FMul(H, z_m)), Fl(FSub(I(1), H))))}} : TRUE

\* the floating-point numbers in [1/32, 1): Precision significant bits
BinaryE1s ==
    {Fin(m, 2 ^ (Precision + k)) :
        m \in (2 ^ (Precision - 1))..(2 ^ Precision - 1), k \in 0..4}

\* the arguments drawn: a in [0,1), P >= 0, z_m in (0,1], E_1 in (0,1)
UnavailHs   == {I(0), Fin(1, 4), Fin(1, 2), Fin(9, 10)}
UnavailPs   == {LnOf(I(1)), LnOf(Fin(3, 2)), LnOf(I(2)), LnOf(I(3))}
UnavailZms  == {Fin(1, 2), I(1)}
UnavailE1s  == {Fin(1, 10), Fin(1, 2), Fin(9, 10)}

\* the grid of arguments, and the call with no recovery penalty for every
\* floating-point E_1
UnavailInit ==
    /\ \/ \E H \in UnavailHs, P \in UnavailPs, z_m \in UnavailZms, E_1 \in UnavailE1s :
             h_in = [H |-> H, P |-> P, z_m |-> z_m, E_1 |-> E_1]
       \/ \E E_1 \in BinaryE1s :
             h_in = [H |-> I(0), P |-> LnOf(I(1)), z_m |-> I(1), E_1 |-> E_1]
    /\ h_out = [exact |-> NotCalled, binary |-> NotCalled]
    /\ s_in = Idle /\ s_out = Idle
    /\ veh = Idle /\ props = Idle /\ strat = Idle /\ call = Idle /\ ncalls = 0

\* the call, its operations taken as exact
CallUnavailMass ==
    /\ ~h_out.exact.called
    /\ h_out' = [h_out EXCEPT !.exact =
          Called(unavail_mass(h_in.H, h_in.P, h_in.z_m, h_in.E_1))]
    /\ UNCHANGED <<h_in, s_in, s_out, veh, props, strat, call, ncalls>>

\* the call, its operations rounded, on arguments that are floating-point
\* numbers; np.exp(0) is 1 without rounding
CallUnavailMassBinary ==
    /\ ~h_out.binary.called
    /\ h_in.P = LnOf(I(1))
    /\ \A x \in {h_in.H, h_in.z_m, h_in.E_1} : Fl(x) = x
    /\ h_out' = [h_out EXCEPT !.binary =
          Called(unavail_mass_binary(h_in.H, h_in.P, h_in.z_m, h_in.E_1))]
    /\ UNCHANGED <<h_in, s_in, s_out, veh, props, strat, call, ncalls>>

UnavailNext ==
    \/ CallUnavailMass
    \/ CallUnavailMassBinary

UnavailSpec == UnavailInit /\ [][UnavailNext]_vars

\* the recovery propellant term z_m/(1-H) * (exp(P) - 1) of the call under
\* study stays below (1 - E_1)/E_1
PropellantFits ==
    FLt(FMul(PyDiv(h_in.z_m, FSub(I(1), h_in.H)), FSub(np_exp(h_in.P), I(1))),
        PyDiv(FSub(I(1), h_in.E_1), h_in.E_1))

\* C21 as stated: for every a in [0,1), P >= 0, z_m in (0,1] and E_1 in
\* (0,1), unavail_mass returns a value strictly between 0 and 1.
C21_StrictlyInsideUnitInterval ==
    h_out.exact.called => (FGt(h_out.exact.value, I(0)) /\ FLt(h_out.exact.value, I(1)))

\* C21: on that domain unavail_mass returns a finite value above 0, and the
\* value is below 1 exactly when the recovery propellant term
\* z_m/(1-a) * (exp(P) - 1) is below (1 - E_1)/E_1.
C21_PositiveAndBelowOneIffPropellantFits ==
    h_out.exact.called =>
        /\ IsFin(h_out.exact.value)
        /\ FGt(h_out.exact.value, I(0))
        /\ FLt(h_out.exact.value, I(1)) <=> PropellantFits

\* a call whose value is 1 or more
C21_Witness ==
    /\ h_out.exact.called
    /\ ~FLt(h_out.exact.value, I(1))
    /\ h_in.P # LnOf(I(1))

\* a call with a recovery manoeuvre whose value is inside (0,1)
C21_Witness_Inside ==
    /\ h_out.exact.called
    /\ FLt(h_out.exact.value, I(1))
    /\ h_in.P # LnOf(I(1))
    /\ h_in.H # I(0)

\* the call with no recovery penalty: a = 0, P = 0, z_m = 1
NoRecoveryPenalty == h_in.H = I(0) /\ h_in.P = LnOf(I(1)) /\ h_in.z_m = I(1)

\* x is a power of one half
IsPowerOfHalf(x) == x.n = 1 /\ \E k \in 0..(3 * Precision) : x.d = 2 ^ k

\* |x - y| <= bound
Within(x, y, bound) == FLe(FSub(x, y), bound) /\ FLe(FSub(y, x), bound)

C22_Witness_Exact ==
    /\ h_out.binary.called
    /\ NoRecoveryPenalty
    /\ ~IsPowerOfHalf(h_in.E_1)
    /\ h_out.binary.value = h_in.E_1

\* P1 is a larger propulsion exponent than P0
LnGt(P1, P0) == FGt(P1.ln, P0.ln)

\* C23: with the other arguments held fixed inside their domains, the value
\* of unavail_mass increases when a increases and increases when P
\* increases.
C23_IncreasesInHardwareAndPropulsion ==
    h_out.exact.called =>
        /\ \A H \in UnavailHs :
              FGt(H, h_in.H) =>
                  FGt(unavail_mass(H, h_in.P, h_in.z_m, h_in.E_1), h_out.exact.value)
        /\ \A P \in UnavailPs :
              LnGt(P, h_in.P) =>
                  FGt(unavail_mass(h_in.H, P, h_in.z_m, h_in.E_1), h_out.exact.value)

\* a call with a positive a and P that is below the largest a and P drawn
C23_Witness ==
    /\ h_out.exact.called
    /\ h_in.H = Fin(1, 4) /\ h_in.P = LnOf(Fin(3, 2))
    /\ FGt(unavail_mass(Fin(1, 2), h_in.P, h_in.z_m, h_in.E_1), h_out.exact.value)
    /\ FGt(unavail_mass(h_in.H, LnOf(I(2)), h_in.z_m, h_in.E_1), h_out.exact.value)

-----------------------------------------------------------------------------
(* Cost: the operations cost laws outside their validated range            *)

\* what preflight_ground_ops_cost prints: the warning of the branch
\* launch_rate < 3, and nothing otherwise
preflight_ground_ops_printed(launch_rate) ==
    IF FLt(launch_rate, I(3))
    THEN <<"Warning: Pre-launch ground operations cost model is only valid for launch rates of 3 or more per year.">>
    ELSE <<>>

\* launch rates per year: inside the table, at its ends, beyond them, and
\* on both sides of the validated range of the ground operations law
OpsLaunchRates ==
    {NInf, I(-1), I(0), Fin(1, 2), Fin(99, 100), I(1), Fin(3, 2), I(2), Fin(5, 2),
     I(3), I(6), Fin(23, 2), I(12), Fin(1201, 100), Fin(25, 2), I(13), I(100), PInf}

OpsProviderTypes == {"A", "B", "C"}

OpsLiftoffMasses == {I(1), I(300)}

\* the fields of OperationsCostFactors the ground operations law reads
OpsCostFactors(p) ==
    [fv |-> Fin(4, 5), fc |-> Fin(17, 20), f8 |-> Fin(43, 50), f11 |-> Fin(11, 20),
     p |-> p]

OpsInit ==
    /\ \E launch_rate \in OpsLaunchRates, launch_provider_type \in OpsProviderTypes,
          M0 \in OpsLiftoffMasses, N \in 1..2, p \in PSet :
          h_in = [launch_rate |-> launch_rate,
                  launch_provider_type |-> launch_provider_type,
                  lv |-> [M0 |-> M0, N |-> N],
                  ops_cost_factors |-> OpsCostFactors(p),
                  launch_nums_list |-> 1..3]
    /\ h_out = [indirect |-> NotCalled,
                ground |-> [called |-> FALSE, value |-> I(0), printed |-> <<>>]]
    /\ s_in = Idle /\ s_out = Idle
    /\ veh = Idle /\ props = Idle /\ strat = Idle /\ call = Idle /\ ncalls = 0

CallIndirectOpsCost ==
    /\ ~h_out.indirect.called
    /\ h_out' = [h_out EXCEPT !.indirect =
          Called(indirect_ops_cost(h_in.launch_rate, h_in.launch_provider_type))]
    /\ UNCHANGED <<h_in, s_in, s_out, veh, props, strat, call, ncalls>>

\* launch_rate is the positive scalar of the docstring
CallPreflightGroundOpsCost ==
    /\ ~h_out.ground.called
    /\ IsRat(h_in.launch_rate) /\ h_in.launch_rate.n > 0
    /\ h_out' = [h_out EXCEPT !.ground =
          [called |-> TRUE,
           value |-> preflight_ground_ops_cost(h_in.lv, h_in.launch_rate,
                                               h_in.ops_cost_factors,
                                               h_in.launch_nums_list),
           printed |-> preflight_ground_ops_printed(h_in.launch_rate)]]
    /\ UNCHANGED <<h_in, s_in, s_out, veh, props, strat, call, ncalls>>

OpsNext ==
    \/ CallIndirectOpsCost
    \/ CallPreflightGroundOpsCost

OpsSpec == OpsInit /\ [][OpsNext]_vars

\* C24: for each provider type 'A', 'B', 'C', indirect_ops_cost returns the
\* first value of the provider's table for every launch rate below 1 and the
\* last value of the table for every launch rate above 12, and raises nothing.
C24_ClampsToTableEnds ==
    h_out.indirect.called =>
        LET ioc_line == ioc_data(h_in.launch_provider_type)
        IN  /\ FLt(h_in.launch_rate, I(1)) => h_out.indirect.value = I(ioc_line[1])
            /\ FGt(h_in.launch_rate, I(12)) =>
                   h_out.indirect.value = I(ioc_line[Len(ioc_line)])
            /\ ~IsRaise(h_out.indirect.value)

\* a call of provider type 'B' at 1/2 launch per year has returned 45
C24_Witness ==
    /\ h_out.indirect.called
    /\ h_in.launch_provider_type = "B"
    /\ h_in.launch_rate = Fin(1, 2)
    /\ h_out.indirect.value = I(45)

\* a call of provider type 'C' at 13 launches per year has returned 11
C24_Witness_Above ==
    /\ h_out.indirect.called
    /\ h_in.launch_provider_type = "C"
    /\ h_in.launch_rate = I(13)
    /\ h_out.indirect.value = I(11)

\* the value of the ground operations law at the arguments of the call
\* under study: 8 * M0**0.67 * launch_rate**-0.9 * N**0.7 * fv * fc * f4_avg
\* * f8 * f11
GroundOpsFormulaValue ==
    LET ocf == h_in.ops_cost_factors
        f4_avg == cost_reduction_factor(ocf.p, h_in.launch_nums_list)
        law == Sym(Atom("M0**0.67 * launch_rate**-0.9 * N**0.7",
                        h_in.lv.M0, h_in.launch_rate, I(h_in.lv.N)))
    IN  LinScale(law, FMul(FMul(FMul(FMul(FMul(I(8), ocf.fv), ocf.fc), f4_avg),
                                ocf.f8), ocf.f11))

-----------------------------------------------------------------------------
(* Engine mass harness: booster_engine_mass and upper_engine_mass          *)

\* propellant strings: none given, the two the branches look for, and one
\* that holds neither 'H2' nor 'kero'
EnginePropellants == {"None", "H2/O2", "kerosene/O2", "CH4/O2"}

\* thrust/weight ratios: none given, the typical values of the four
\* branches, and one that is no branch's value
EngineTWs == {NoneVal, I(33), I(50), I(63), I(80), I(100)}

EngineInit ==
    /\ \E m_0 \in {I(1000), I(5000)}, n_engines \in {1, 9},
          propellant \in EnginePropellants, tw \in EngineTWs, accel \in {I(2), I(10)} :
          h_in = [m_0 |-> m_0, n_engines |-> n_engines, propellant |-> propellant,
                  tw |-> tw, accel |-> accel]
    /\ h_out = [booster |-> NotCalled, upper |-> NotCalled]
    /\ s_in = Idle /\ s_out = Idle
    /\ veh = Idle /\ props = Idle /\ strat = Idle /\ call = Idle /\ ncalls = 0

CallBoosterEngineMass ==
    /\ ~h_out.booster.called
    /\ h_out' = [h_out EXCEPT !.booster =
          Called(booster_engine_mass(h_in.m_0, h_in.n_engines, h_in.propellant,
                                     h_in.tw, h_in.accel))]
    /\ UNCHANGED <<h_in, s_in, s_out, veh, props, strat, call, ncalls>>

CallUpperEngineMass ==
    /\ ~h_out.upper.called
    /\ h_out' = [h_out EXCEPT !.upper =
          Called(upper_engine_mass(h_in.m_0, h_in.n_engines, h_in.propellant,
                                   h_in.tw, h_in.accel))]
    /\ UNCHANGED <<h_in, s_in, s_out, veh, props, strat, call, ncalls>>

EngineNext ==
    \/ CallBoosterEngineMass
    \/ CallUpperEngineMass

EngineSpec == EngineInit /\ [][EngineNext]_vars

\* the engine mass thrust / (tw * g_0 * n_engines) for the thrust/weight
\* ratio tw, with the arguments of the call under study
BoosterMassWith(tw) ==
    NpDiv(DivG0(FMul(h_in.m_0, FAdd(h_in.accel, Sym(AtomG0)))),
          FMul(tw, I(h_in.n_engines)))

UpperMassWith(tw) ==
    NpDiv(DivG0(FMul(h_in.m_0, h_in.accel)), FMul(tw, I(h_in.n_engines)))

\* C26: in booster_engine_mass and upper_engine_mass, when the caller gives a
\* thrust/weight ratio tw, the engine mass is computed with that tw even if a
\* propellant is also given.
C26_SuppliedTwOverridesPropellant ==
    ~IsNone(h_in.tw) =>
        /\ h_out.booster.called => h_out.booster.value = BoosterMassWith(h_in.tw)
        /\ h_out.upper.called => h_out.upper.value = UpperMassWith(h_in.tw)

\* both functions have been called with tw = 100 and propellant
\* 'kerosene/O2', and have returned the engine masses of tw = 80 and tw = 63
C26_Witness ==
    /\ h_in.tw = I(100) /\ h_in.propellant = "kerosene/O2"
    /\ h_out.booster.called /\ h_out.upper.called
    /\ h_out.booster.value = BoosterMassWith(I(80))
    /\ h_out.upper.value = UpperMassWith(I(63))
    /\ h_out.booster.value # BoosterMassWith(I(100))
    /\ h_out.upper.value # UpperMassWith(I(100))

\* what the code does with a supplied tw: a propellant holding 'H2' or
\* 'kero' replaces it by the typical value, and only without such a
\* propellant is the supplied tw used
PropellantOverridesSuppliedTw ==
    ~IsNone(h_in.tw) =>
        /\ h_out.booster.called =>
               h_out.booster.value =
                   BoosterMassWith(CASE h_in.propellant = "H2/O2" -> I(50)
                                     [] h_in.propellant = "kerosene/O2" -> I(80)
                                     [] OTHER -> h_in.tw)
        /\ h_out.upper.called =>
               h_out.upper.value =
                   UpperMassWith(CASE h_in.propellant = "H2/O2" -> I(33)
                                   [] h_in.propellant = "kerosene/O2" -> I(63)
                                   [] OTHER -> h_in.tw)

-----------------------------------------------------------------------------
(* Update harness: update_masses applied to the vehicles of                *)
(* construct_launch_vehicle                                                *)

\* a dictionary of masses in kilogram over the given keys, every key with a
\* value of its own, scaled by k
MassesDict(keys, k) ==
    [key \in keys |->
        CASE key = "m0" -> I(100000 * k)
          [] key = "s1" -> I(7000 * k)
          [] key = "s2" -> I(900 * k)
          [] key = "e1" -> I(400 * k)
          [] key = "e2" -> I(300 * k)
          [] key = "ab" -> I(250 * k)
          [] key = "d1" -> I(1100 * k)
          [] key = "H2" -> I(20000 * k)
          [] key = "kerosene" -> I(30000 * k)
          [] key = "O2" -> I(50000 * k)]

\* the keys every get_masses puts in its dictionary, for a first stage
\* burning prop_choice under a kerosene upper stage
BaseMassKeys(prop_choice) == {"m0", "s1", "s2", "e1", "e2", prop_choice, "kerosene", "O2"}

\* the vehicle is the one Strategy.__init__ constructs and the propellant
\* dictionary the one the subclass constructor fills with zeros;
\* num_engines_dict has the key 'ab' for the strategies whose get_masses
\* returns the key 'ab'
UpdateInit ==
    /\ \E stage_type \in {"ballistic", "winged"}, prop_choice \in {"H2", "kerosene"},
          portion_reused \in {"full", "partial"}, ab_rec \in BOOLEAN,
          has_ab \in BOOLEAN, has_d1 \in BOOLEAN, k \in 1..2, n_e1 \in {1, 9} :
          /\ stage_type = "ballistic" => ~ab_rec
          /\ h_in = [lv |-> construct_launch_vehicle(stage_type, prop_choice,
                                                     portion_reused, ab_rec),
                     vehicle_props_dict |->
                         [prop \in {prop_choice, "kerosene", "O2"} |-> I(0)],
                     num_engines_dict |->
                         IF has_ab THEN [e1 |-> n_e1, e2 |-> 1, ab |-> 2]
                         ELSE [e1 |-> n_e1, e2 |-> 1],
                     masses_dict |->
                         MassesDict(BaseMassKeys(prop_choice)
                                        \cup (IF has_ab THEN {"ab"} ELSE {})
                                        \cup (IF has_d1 THEN {"d1"} ELSE {}), k)]
    /\ h_out = [called |-> FALSE]
    /\ s_in = Idle /\ s_out = Idle
    /\ veh = Idle /\ props = Idle /\ strat = Idle /\ call = Idle /\ ncalls = 0

CallUpdateMasses ==
    /\ ~h_out.called
    /\ \E upd \in {update_masses(h_in.lv, h_in.vehicle_props_dict, h_in.num_engines_dict,
                                 h_in.masses_dict)} :
          h_out' = [called |-> TRUE, raised |-> upd.raised, lv |-> upd.lv,
                    vehicle_props_dict |-> upd.vehicle_props_dict]
    /\ UNCHANGED <<h_in, s_in, s_out, veh, props, strat, call, ncalls>>

UpdateNext == CallUpdateMasses

UpdateSpec == UpdateInit /\ [][UpdateNext]_vars

\* masses_dict['s1'] + n_e1 * masses_dict['e1'], plus n_ab * masses_dict['ab']
\* when masses_dict has the key 'ab'
FlybackStageMass ==
    LET masses_dict == h_in.masses_dict
        rocket == FAdd(masses_dict["s1"],
                       FMul(I(h_in.num_engines_dict["e1"]), masses_dict["e1"]))
    IN  IF "ab" \in DOMAIN masses_dict
        THEN FAdd(rocket, FMul(I(h_in.num_engines_dict["ab"]), masses_dict["ab"]))
        ELSE rocket

\* C27: after update_masses(masses_dict) completes, LaunchVehicle.M0 is
\* masses_dict['m0']/1000, every element that is a winged fly-back stage has
\* mass masses_dict['s1'] + n_e1*masses_dict['e1'], plus
\* n_ab*masses_dict['ab'] when 'ab' is present, every other element has mass
\* masses_dict[its name], and every propellant of vehicle_props_dict holds
\* masses_dict[that propellant].
C27_UpdateMassesPostcondition ==
    (h_out.called /\ ~h_out.raised) =>
        /\ h_out.lv.M0 = PyDiv(h_in.masses_dict["m0"], I(1000))
        /\ Len(h_out.lv.element_list) = Len(h_in.lv.element_list)
        /\ \A i \in 1..Len(h_out.lv.element_list) :
              LET element == h_out.lv.element_list[i]
              IN  /\ element.name = h_in.lv.element_list[i].name
                  /\ element.cls = h_in.lv.element_list[i].cls
                  /\ element.m = IF element.cls = "VTOStageFlybackVehicle"
                                 THEN FlybackStageMass
                                 ELSE h_in.masses_dict[element.name]
        /\ DOMAIN h_out.vehicle_props_dict = DOMAIN h_in.vehicle_props_dict
        /\ \A prop \in DOMAIN h_out.vehicle_props_dict :
              h_out.vehicle_props_dict[prop] = h_in.masses_dict[prop]

\* update_masses has completed on a winged vehicle with air-breathing
\* engines: the fly-back stage weighs 7000 + 9 * 400 + 2 * 250 kg, the
\* air-breathing engine its own 250 kg, and M0 is 100 Mg
C27_Witness ==
    /\ h_out.called /\ ~h_out.raised
    /\ h_in.num_engines_dict = [e1 |-> 9, e2 |-> 1, ab |-> 2]
    /\ h_in.masses_dict["m0"] = I(100000)
    /\ h_out.lv.M0 = I(100)
    /\ \E i \in 1..Len(h_out.lv.element_list) :
          /\ h_out.lv.element_list[i].cls = "VTOStageFlybackVehicle"
          /\ h_out.lv.element_list[i].m = I(11100)
    /\ \E i \in 1..Len(h_out.lv.element_list) :
          /\ h_out.lv.element_list[i].name = "ab"
          /\ h_out.lv.element_list[i].m = I(250)
    /\ h_out.vehicle_props_dict["H2"] = I(20000)

\* update_masses has completed on a winged vehicle without air-breathing
\* engines: the fly-back stage weighs 7000 + 400 kg
C27_Witness_NoAirBreathing ==
    /\ h_out.called /\ ~h_out.raised
    /\ "ab" \notin DOMAIN h_in.masses_dict
    /\ h_in.num_engines_dict["e1"] = 1
    /\ h_in.masses_dict["s1"] = I(7000)
    /\ \E i \in 1..Len(h_out.lv.element_list) :
          /\ h_out.lv.element_list[i].cls = "VTOStageFlybackVehicle"
          /\ h_out.lv.element_list[i].m = I(7400)

-----------------------------------------------------------------------------
(* Two Strategy objects: the objects the constructors make, by address     *)

\* The objects of the program are the entries of a sequence, h_in, and the
\* address of an object is its index.  The module-level f8_dict of
\* strategy_models.py is made once, at import, and handed to every cost model.
ModuleHeap == << Strategy("Expendable").f8_dict >>

\* a variant whose constructor takes the propellant dictionary of the first
\* cost model made instead of making a new one
NewStrategy_sharedprops(heap, kind) ==
    LET lv == InitialVehicle(kind)
        n == Len(lv.element_list)
        base == Len(heap)
        made == {a \in DOMAIN heap : "vehicle_props_dict" \in DOMAIN heap[a]}
    IN  heap \o lv.element_list
             \o << [lv EXCEPT !.element_list = [i \in 1..n |-> base + i]],
                   InitialProps(kind),
                   [launch_vehicle |-> base + n + 1,
                    vehicle_props_dict |->
                        IF made = {} THEN base + n + 2
                        ELSE heap[CHOOSE a \in made : TRUE].vehicle_props_dict,
                    f8_dict |-> Len(ModuleHeap)],
                   [kind |-> kind, launch_vehicle |-> base + n + 1,
                    cost_model |-> base + n + 3] >>

\* Strategy.__init__ and the subclass constructor: construct_launch_vehicle
\* makes a new object of every element and a new LaunchVehicle that lists
\* them, the subclass constructor makes a new vehicle_props_dict and a new
\* cost model that refers to the vehicle, to the dictionary and to f8_dict.
\* The Strategy object is the last one made.
NewStrategy(heap, kind) ==
    LET lv == InitialVehicle(kind)
        n == Len(lv.element_list)
        base == Len(heap)
    IN  heap \o lv.element_list
             \o << [lv EXCEPT !.element_list = [i \in 1..n |-> base + i]],
                   InitialProps(kind),
                   [launch_vehicle |-> base + n + 1,
                    vehicle_props_dict |-> base + n + 2,
                    f8_dict |-> Len(ModuleHeap)],
                   [kind |-> kind, launch_vehicle |-> base + n + 1,
                    cost_model |-> base + n + 3] >>

\* strat[c] is the address of caller c's Strategy, or 0, which is no
\* object's address, before the caller has constructed it
Constructed(c) == strat[c] > 0

\* the cost model of the Strategy at an address
CostModelAt(heap, self) == heap[heap[self].cost_model]

\* the LaunchVehicle of a cost model with its elements, and its propellant
\* dictionary, read through the references
VehicleAt(heap, self) ==
    LET launch_vehicle == heap[CostModelAt(heap, self).launch_vehicle]
    IN  [launch_vehicle EXCEPT
            !.element_list = [i \in 1..Len(launch_vehicle.element_list) |->
                                 heap[launch_vehicle.element_list[i]]]]

PropsAt(heap, self) == heap[CostModelAt(heap, self).vehicle_props_dict]

\* the addresses of the LaunchVehicle, of its elements and of the propellant
\* dictionary of the Strategy at an address
MassObjects(heap, self) ==
    LET cost_model == CostModelAt(heap, self)
        element_list == heap[cost_model.launch_vehicle].element_list
    IN  {cost_model.launch_vehicle, cost_model.vehicle_props_dict}
            \cup {element_list[i] : i \in 1..Len(element_list)}

OwnInit ==
    /\ h_in = ModuleHeap
    /\ strat = [c \in Callers |-> 0]
    /\ call = [c \in Callers |-> IdleCall]
    /\ ncalls = 0
    /\ h_out = Idle /\ s_in = Idle /\ s_out = Idle /\ veh = Idle /\ props = Idle

\* caller c constructs its own Strategy
Construct(c) ==
    /\ ~Constructed(c)
    /\ \E kind \in StrategyKinds :
          \E heap \in {NewStrategy(h_in, kind)} :
              /\ h_in' = heap
              /\ strat' = [strat EXCEPT ![c] = Len(heap)]
    /\ UNCHANGED <<h_out, s_in, s_out, veh, props, call, ncalls>>

\* caller c calls evaluate of its own Strategy, once
OwnBegin(c) ==
    /\ Constructed(c)
    /\ call[c].pc = "idle"
    /\ \E args \in EvalArgs(h_in[strat[c]].kind) :
          call' = [call EXCEPT ![c] = [IdleCall EXCEPT !.pc = "solve", !.args = args]]
    /\ ncalls' = ncalls + 1
    /\ UNCHANGED <<h_in, h_out, s_in, s_out, veh, props, strat>>

OwnSolve(c) ==
    /\ call[c].pc = "solve"
    /\ \E kind \in {h_in[strat[c]].kind} :
          call' = [call EXCEPT
             ![c].perf = IF kind = "Expendable"
                         THEN payload_fixed_stages(Strategy(kind).y, FALSE, call[c].args.sol)
                         ELSE propulsive_ls_perf(call[c].args.c_1, Strategy(kind).y,
                                                 call[c].args.sol),
             ![c].pc = "get_masses"]
    /\ UNCHANGED <<h_in, h_out, s_in, s_out, veh, props, strat, ncalls>>

OwnGetMasses(c) ==
    /\ call[c].pc = "get_masses"
    /\ \E got \in {get_masses(Strategy(h_in[strat[c]].kind), call[c].perf.v[1],
                                call[c].args.a, call[c].args.E_1, call[c].args.E_2)} :
           call' = [call EXCEPT ![c] =
              IF ~HasPerfAttributes(call[c].perf)
              THEN [@ EXCEPT !.pc = "raised", !.exc = "AttributeError"]
              ELSE IF got.raised
              THEN [@ EXCEPT !.pc = "raised", !.exc = "AssertionError"]
              ELSE [@ EXCEPT !.pc = "update_masses", !.masses = got.mass_dict]]
    /\ UNCHANGED <<h_in, h_out, s_in, s_out, veh, props, strat, ncalls>>

\* self.cost_model.update_masses(element_masses): the assignments go to the
\* objects the cost model refers to
OwnUpdateMasses(c) ==
    /\ call[c].pc = "update_masses"
    /\ \E cost_model \in {CostModelAt(h_in, strat[c])} :
       \E upd \in {update_masses(VehicleAt(h_in, strat[c]), PropsAt(h_in, strat[c]),
                                   Strategy(h_in[strat[c]].kind).num_engines_dict,
                                   call[c].masses)} :
       \E element_list \in {h_in[cost_model.launch_vehicle].element_list} :
           /\ h_in' = [address \in DOMAIN h_in |->
                 IF address = cost_model.vehicle_props_dict THEN upd.vehicle_props_dict
                 ELSE IF address = cost_model.launch_vehicle
                 THEN [h_in[address] EXCEPT !.M0 = upd.lv.M0]
                 ELSE IF \E i \in 1..Len(element_list) : element_list[i] = address
                 THEN upd.lv.element_list[CHOOSE i \in 1..Len(element_list) :
                                              element_list[i] = address]
                 ELSE h_in[address]]
           /\ call' = [call EXCEPT ![c] =
                 IF upd.raised THEN [@ EXCEPT !.pc = "raised", !.exc = "KeyError"]
                 ELSE [@ EXCEPT !.pc = "evaluate_cost"]]
    /\ UNCHANGED <<h_out, s_in, s_out, veh, props, strat, ncalls>>

\* self.cost_model.evaluate_cost(**kwargs) reads the same objects
OwnEvaluateCost(c) ==
    /\ call[c].pc = "evaluate_cost"
    /\ \E kind \in {h_in[strat[c]].kind} :
       \E cost_results \in {evaluate_cost(Strategy(kind), VehicleAt(h_in, strat[c]),
                                            PropsAt(h_in, strat[c]),
                                            Kwargs(call[c].args.kwargs))} :
           call' = [call EXCEPT ![c] =
              IF cost_results = <<Raise>>
              THEN [@ EXCEPT !.pc = "raised", !.exc = "Exception"]
              ELSE [@ EXCEPT !.pc = "done",
                             !.result = PerfPair(kind, call[c]) \o cost_results]]
    /\ UNCHANGED <<h_in, h_out, s_in, s_out, veh, props, strat, ncalls>>

OwnNext ==
    \E c \in Callers :
        \/ Construct(c)
        \/ OwnBegin(c)
        \/ OwnSolve(c)
        \/ OwnGetMasses(c)
        \/ OwnUpdateMasses(c)
        \/ OwnEvaluateCost(c)

OwnSpec == OwnInit /\ [][OwnNext]_vars

\* C29: two separately constructed Strategy objects share no LaunchVehicle,
\* no LaunchVehicleElement and no propellant-mass dictionary; a step of an
\* evaluate call on one of them changes none of these objects of the other,
\* and in every interleaving each call returns what it returns on a Strategy
\* nobody else uses.
C29_SeparateStrategiesIndependent ==
    [][\A c \in Callers : \A d \in Callers \ {c} :
          /\ (strat'[c] > 0 /\ strat'[d] > 0) =>
                MassObjects(h_in', strat'[c]) \cap MassObjects(h_in', strat'[d]) = {}
          /\ (call'[c] # call[c] /\ strat[d] > 0) =>
                \A address \in MassObjects(h_in, strat[d]) : h_in'[address] = h_in[address]
          /\ (call[c].pc = "evaluate_cost" /\ call'[c].pc = "done") =>
                call'[c].result = EvaluateAlone(h_in[strat[c]].kind, call[c].args)]_vars

\* both calls stand between their update_masses and their evaluate_cost, with
\* different masses, and each Strategy's vehicle and propellant dictionary
\* hold the masses of its own call
C29_Witness ==
    /\ \A c \in Callers :
          /\ Constructed(c)
          /\ call[c].pc = "evaluate_cost"
          /\ VehicleAt(h_in, strat[c]) = VehicleWith(h_in[strat[c]].kind, call[c].masses)
          /\ PropsAt(h_in, strat[c]) = PropsWith(h_in[strat[c]].kind, call[c].masses)
    /\ \E c \in Callers : \E d \in Callers \ {c} :
          /\ call[c].masses # call[d].masses
          /\ h_in[strat[c]].kind = h_in[strat[d]].kind
          /\ CostModelAt(h_in, strat[c]).f8_dict = CostModelAt(h_in, strat[d]).f8_dict

\* both calls have returned, each the result of its own arguments
C29_Witness_Returned ==
    /\ \A c \in Callers :
          /\ Constructed(c)
          /\ call[c].pc = "done"
          /\ call[c].result = EvaluateAlone(h_in[strat[c]].kind, call[c].args)
    /\ \E c \in Callers : \E d \in Callers \ {c} : call[c].result # call[d].result

-----------------------------------------------------------------------------
(* Serial ranges and the learning-curve average                            *)

\* the serial ranges the calls made so far have averaged over, with the
\* unit count of their element
SerialRangesBuilt ==
    {[serials |-> out.serials[name], n |-> h_in.element_map[name].n] :
        out \in {o \in {h_out.full, h_out.per_flight, h_out.first_build} : o.called},
        name \in ElementNames}

\* C30: for unit counts n >= 1 and a non-empty ascending
\* vehicle_prod_nums_list whose first entry is >= 1, every element serial
\* range built by average_vehicle_production_cost and by either branch of
\* average_prod_cost_per_flight, for num_reuses > 1 whole or fractional, is
\* non-empty and starts at a serial >= 1, and no learning-curve average
\* divides by zero: every call returns a number.
C30_SerialRangesNonEmpty ==
    /\ \A built \in SerialRangesBuilt :
          /\ built.serials # {}
          /\ Cardinality(built.serials) >= built.n
          /\ \A serial \in built.serials : serial >= 1
    /\ \A out \in {h_out.full, h_out.per_flight, h_out.first_build} :
          out.called =>
              /\ IsFin(out.value)
              /\ \A name \in ElementNames : IsFin(out.terms[name])

\* the three calls have been made for a production run that starts with the
\* first vehicle, with a stage reused 5/2 times and two engines per vehicle
\* reused 3 times: the stage's serials are 1..2 and the engines' 1..2
C30_Witness ==
    /\ h_out.full.called /\ h_out.per_flight.called /\ h_out.first_build.called
    /\ h_in.vehicle_prod_nums_list = <<1, 2, 3>>
    /\ h_in.element_map["e1"].n = 2
    /\ h_in.element_reuses_dict = [s1 |-> Fin(5, 2), e1 |-> I(3)]
    /\ h_out.per_flight.serials["s1"] = 1..2
    /\ h_out.per_flight.serials["e1"] = 1..2
    /\ h_out.per_flight.serials["e2"] = 1..6
    /\ h_out.full.serials["e1"] = 1..6
    /\ IsFin(h_out.per_flight.value)

====
